---- MODULE Spec2Model ----
(***************************************************************************)
(* editflow: the timing-composition tree (Component, Sound, Tape, Film,    *)
(* Screen) as a state machine over a Python-like object heap.              *)
(*                                                                         *)
(* Python objects are heap cells addressed by an id.  A Component owns a   *)
(* reference to a mutable list object `children`; copy.copy(component)     *)
(* allocates a new cell whose fields hold the SAME references, so a copy   *)
(* and its original share one children list.  A list object is named by    *)
(* the id of the object whose constructor allocated it.  A Tape also holds  *)
(* references to its `effects` list and its `animations` AnimationSet,     *)
(* which a copy shares in the same way.                                    *)
(*                                                                         *)
(* Times (t, duration, start_delay, each) are integers in one fixed unit:  *)
(* the animation functions only compare times and divide one by another.   *)
(***************************************************************************)
EXTENDS Integers, Sequences, FiniteSets, TLC

\* ---------------------------------------------------------------- bounds
MaxObjs == 7          \* heap cells (the Screen is cell 1)
MaxStart == 1         \* `start` gaps and client-set begins range over 0..MaxStart
MaxDur == 2           \* clip durations range over 1..MaxDur
MaxListLen == 2       \* longest list handed to Film.add_tape
MaxT == 12            \* an animation is evaluated at the times 0..MaxT
MaxAnimDur == 4       \* duration and ease_duration range over 1..MaxAnimDur
MaxEach == 4          \* the time per keyframe ranges over 1..MaxEach
MaxCell == 3          \* grid rows and columns handed to get_coords: 0..MaxCell
MaxF == 3             \* fn(x) - y_target ranges over -MaxF..MaxF halves of tol

ObjIds == 1..MaxObjs
ScreenId == 1
Starts == 0..MaxStart
Durs == 1..MaxDur
Methods == {"compose", "concat", "last", "bogus"}
ValidMethods == {"compose", "concat", "last"}
RecErr == 0 - 1       \* stands for RecursionError raised while reading finish
None == [none |-> TRUE]

VARIABLES
    heap,             \* id -> object fields
    lists,            \* list id -> sequence of object ids (the children lists)
    effects,          \* list id -> sequence of effects (the Tape.effects lists)
    animations,       \* AnimationSet id -> its slots
    bg_music,         \* Screen.bg_music: None or the copied Sound
    end,              \* Screen._end: None or the resolved composition
    total_duration,   \* Screen.total_duration (unset = None)
    last,             \* the call just made and how it ended
    ev                \* the animation or grid function being evaluated

vars == <<heap, lists, effects, animations, bg_music, end, total_duration, last, ev>>

\* an unallocated heap cell
NoObj == [kind |-> "none", begin |-> 0, children |-> 0, dur |-> 0]

\* Component.__init__: begin = 0.0, children = [] (a fresh list, named by the cell)
NewObj(id, kind, dur) ==
    [kind |-> kind, begin |-> 0, children |-> id, dur |-> dur]

\* ---------------------------------------------------------------- strings
\* a Python str is the sequence of its characters
Uppers == <<"A", "B", "C", "D", "E", "F", "G", "H", "I", "J", "K", "L", "M",
            "N", "O", "P", "Q", "R", "S", "T", "U", "V", "W", "X", "Y", "Z">>
Lowers == <<"a", "b", "c", "d", "e", "f", "g", "h", "i", "j", "k", "l", "m",
            "n", "o", "p", "q", "r", "s", "t", "u", "v", "w", "x", "y", "z">>

LowerChar(c) ==
    IF \E i \in 1..Len(Uppers) : Uppers[i] = c
    THEN Lowers[CHOOSE i \in 1..Len(Uppers) : Uppers[i] = c]
    ELSE c

\* str.lower()
StrLower(s) == [i \in 1..Len(s) |-> LowerChar(s[i])]

\* str.strip(" "): leading and trailing spaces removed, nothing else
RECURSIVE StrStrip(_)
StrStrip(s) ==
    IF s = <<>> THEN s
    ELSE IF Head(s) = " " THEN StrStrip(Tail(s))
    ELSE IF s[Len(s)] = " " THEN StrStrip(SubSeq(s, 1, Len(s) - 1))
    ELSE s

center == <<"c", "e", "n", "t", "e", "r">>
left == <<"l", "e", "f", "t">>
right == <<"r", "i", "g", "h", "t">>
top == <<"t", "o", "p">>
bottom == <<"b", "o", "t", "t", "o", "m">>
topleft == top \o left
topright == top \o right
bottomleft == bottom \o left
bottomright == bottom \o right

\* Tape.__init__(clip, custom_start = False, custom_position): placement at
\* the grid origin, effects = [] and animations = AnimationSet(), both fresh
\* objects named by the cell; `size` and `layer` are the clip's w, h and
\* layer_index
NewTape(id, dur, size, custom_position) ==
    [kind |-> "Tape", begin |-> 0, children |-> id, dur |-> dur,
     size |-> size, layer |-> 0, custom_position |-> custom_position,
     pos |-> <<0, 0>>, offset |-> <<0, 0>>, anchor |-> topleft,
     span |-> <<1, 1>>, effects |-> id, animations |-> id]

\* AnimationSet(): every slot None, custom = {}
NoAnimations == [position |-> None, scale |-> None, custom |-> <<>>]

Used(h) == {o \in ObjIds : h[o].kind # "none"}
FreshId(h) == Cardinality(Used(h)) + 1
\* objects built by a constructor call of the client (not copies made by insertion)
Originals(h) == {o \in Used(h) : h[o].children = o}
Kids(h, l, o) == l[h[o].children]

Max2(a, b) == IF a >= b THEN a ELSE b
MaxOf(S) == CHOOSE m \in S : \A x \in S : x <= m
Range(s) == {s[i] : i \in 1..Len(s)}

\* ------------------------------------------------- finish and lifetime
\* Component.finish / Tape.finish / Sound.finish, read on heap h with lists l.
\* The read recurses through the children lists; `fuel` bounds the depth:
\* an acyclic heap is never deeper than its number of cells, so running out
\* of fuel is exactly Python's unbounded recursion on a cyclic heap.
RECURSIVE FinishF(_, _, _, _)

\* FinishF with a fault: a node with children finishes when its last child does
FinishFLastChild(h, l, o, fuel) ==
    IF fuel = 0 THEN RecErr
    ELSE
      LET kids == Kids(h, l, o)
          generic == IF kids = <<>> THEN h[o].begin
                     ELSE FinishF(h, l, kids[Len(kids)], fuel - 1)
      IN  CASE h[o].kind = "Sound" -> h[o].begin + h[o].dur
            [] h[o].kind = "Tape"  ->
                   IF generic = RecErr THEN RecErr
                   ELSE Max2(generic, h[o].begin + h[o].dur)
            [] OTHER -> generic

\* FinishF with a fault: a Tape finishes with its clip, whatever its Sounds
FinishFClipOnly(h, l, o, fuel) ==
    IF fuel = 0 THEN RecErr
    ELSE
      LET kids == Kids(h, l, o)
          fin == [i \in 1..Len(kids) |-> FinishF(h, l, kids[i], fuel - 1)]
          generic == IF kids = <<>> THEN h[o].begin
                     ELSE IF \E i \in 1..Len(kids) : fin[i] = RecErr THEN RecErr
                     ELSE MaxOf(Range(fin))
      IN  CASE h[o].kind \in {"Sound", "Tape"} -> h[o].begin + h[o].dur
            [] OTHER -> generic

FinishF(h, l, o, fuel) ==
    IF fuel = 0 THEN RecErr
    ELSE
      LET kids == Kids(h, l, o)
          fin == [i \in 1..Len(kids) |-> FinishF(h, l, kids[i], fuel - 1)]
          \* Component.finish: begin if no children, else the max over children
          generic == IF kids = <<>> THEN h[o].begin
                     ELSE IF \E i \in 1..Len(kids) : fin[i] = RecErr THEN RecErr
                     ELSE MaxOf(Range(fin))
      IN  CASE h[o].kind = "Sound" -> h[o].begin + h[o].dur
            [] h[o].kind = "Tape"  ->
                   IF generic = RecErr THEN RecErr
                   ELSE Max2(generic, h[o].begin + h[o].dur)
            [] OTHER -> generic

Finish(h, l, o) == FinishF(h, l, o, MaxObjs + 1)

\* Component.lifetime / Tape.lifetime / Sound.lifetime
Lifetime(h, l, o) ==
    CASE h[o].kind \in {"Tape", "Sound"} -> h[o].dur
      [] OTHER -> IF Finish(h, l, o) = RecErr THEN RecErr
                  ELSE Finish(h, l, o) - h[o].begin

\* ------------------------------------------------------- add_component
\* PlacementBegin with a fault: 'concat' starts the copy at the previous
\* child's begin, as 'last' does
PlacementBeginConcatAsLast(h, l, self, method, start) ==
    LET kids == Kids(h, l, self)
    IN  CASE method = "compose" -> h[self].begin + start
          [] OTHER ->
                 IF kids = <<>> THEN start
                 ELSE h[kids[Len(kids)]].begin + start

\* The begin that add_component gives the copy (RecErr if reading the last
\* child's finish never returns); only called with a valid method.
PlacementBegin(h, l, self, method, start) ==
    LET kids == Kids(h, l, self)
    IN  CASE method = "compose" -> h[self].begin + start
          [] method = "concat" ->
                 IF kids = <<>> THEN start
                 ELSE IF Finish(h, l, kids[Len(kids)]) = RecErr THEN RecErr
                 ELSE Finish(h, l, kids[Len(kids)]) + start
          [] method = "last" ->
                 IF kids = <<>> THEN start
                 ELSE h[kids[Len(kids)]].begin + start

\* Is the method one of the three branches of add_component?
KnownMethod(method) == method \in ValidMethods

\* copy.copy(component) followed by the assignment of begin: a new cell with
\* the same field values, hence the same children list
CopyOf(h, comp, begin) == [h[comp] EXCEPT !.begin = begin]

\* AddComponent with a fault: an unknown method name falls back to 'compose'
AddComponentDefault(h, l, self, comp, method, start) ==
    LET m == IF KnownMethod(method) THEN method ELSE "compose"
        b == PlacementBegin(h, l, self, m, start)
        id == FreshId(h)
    IN  IF b = RecErr
        THEN [res |-> "RecursionError", h |-> h, l |-> l]
        ELSE [res |-> "ok",
              h |-> [h EXCEPT ![id] = CopyOf(h, comp, b)],
              l |-> [l EXCEPT ![h[self].children] = Append(@, id)]]

\* Component.add_component on (h, l): the outcome and the heap it leaves.
\* The copy made before a raise is garbage and is not kept.
AddComponent(h, l, self, comp, method, start) ==
    IF ~KnownMethod(method)
    THEN [res |-> "ValueError", h |-> h, l |-> l]
    ELSE LET b == PlacementBegin(h, l, self, method, start)
             id == FreshId(h)
         IN  IF b = RecErr
             THEN [res |-> "RecursionError", h |-> h, l |-> l]
             ELSE [res |-> "ok",
                   h |-> [h EXCEPT ![id] = CopyOf(h, comp, b)],
                   l |-> [l EXCEPT ![h[self].children] = Append(@, id)]]

\* --------------------------------------------------------- the client
OfKind(h, k) == {o \in Originals(h) : h[o].kind = k}
\* what a client can hand to an insertion: the objects it constructed
Args(h) == {o \in Originals(h) : h[o].kind # "Screen"}

\* what is kept of the call just made: the operation and how it ended
\* ("ok" or the exception raised)
Call(op, res) == [op |-> op, res |-> res]

\* The state after construction: a Screen, and the objects the client has
\* built and holds: Film(), Tape(clip), Sound(clip), with any clip durations.
FilmId == 2
TapeId == 3
SoundId == 4

\* w and h of the clip the client wraps in its Tape
TapeSize == <<200, 100>>

\* no animation or grid function is being evaluated
Idle == [fn |-> "none"]

Constructed(dt, ds, custom_position) ==
    /\   heap = [o \in ObjIds |->
                    CASE o = ScreenId -> NewObj(o, "Screen", 0)
                      [] o = FilmId   -> NewObj(o, "Film", 0)
                      [] o = TapeId   -> NewTape(o, dt, TapeSize, custom_position)
                      [] o = SoundId  -> NewObj(o, "Sound", ds)
                      [] OTHER        -> NoObj]
    /\ lists = [o \in ObjIds |-> <<>>]
    /\ effects = [o \in ObjIds |-> <<>>]
    /\ animations = [o \in ObjIds |-> NoAnimations]
    /\ bg_music = None
    /\ end = None
    /\ total_duration = None
    /\ last = Call("init", "ok")

Init == (\E dt \in Durs, ds \in Durs : Constructed(dt, ds, FALSE)) /\ ev = Idle

\* the client assigns x.begin = v on an object it holds (a Film or a Tape:
\* begin of a Sound it holds is never read, every insertion overwrites it in
\* the copy)
SetBeginCall(x, v) ==
    /\ heap' = [heap EXCEPT ![x].begin = v]
    /\ last' = Call("set_begin", "ok")
    /\ UNCHANGED <<lists, effects, animations, bg_music, end, total_duration, ev>>

Settable == {FilmId, TapeId}

SetBegin == \E x \in Settable, v \in Starts : SetBeginCall(x, v)

\* an insertion call that ends as `out`
Insertion(op, out) ==
    /\ heap' = out.h
    /\ lists' = out.l
    /\ last' = Call(op, out.res)
    /\ UNCHANGED <<animations, bg_music, end, total_duration, ev>>

\* Tape.add_sound(sound, method, start): add_component and nothing else
AddSoundCall(tape, x, m, st) ==
    /\ FreshId(heap) <= MaxObjs
    /\ Insertion("add_sound", AddComponent(heap, lists, tape, x, m, st))
    /\ UNCHANGED effects

AddSoundOf(cands) ==
    \E tape \in OfKind(heap, "Tape"), x \in cands, m \in Methods, st \in Starts :
        AddSoundCall(tape, x, m, st)

\* AddFilmOutcome with a fault: no check that the film has tapes
AddFilmUnchecked(h, l, film, method, start) ==
    AddComponent(h, l, ScreenId, film, method, start)

\* Screen.add_film(film, method, start)
AddFilmOutcome(h, l, film, method, start) ==
    IF Len(Kids(h, l, film)) = 0
    THEN [res |-> "ValueError", h |-> h, l |-> l]
    ELSE AddComponent(h, l, ScreenId, film, method, start)

AddFilmCall(x, m, st) ==
    /\ FreshId(heap) <= MaxObjs
    /\ Insertion("add_film", AddFilmOutcome(heap, lists, x, m, st))
    /\ UNCHANGED effects

AddFilmOf(cands) ==
    \E x \in cands, m \in Methods, st \in Starts : AddFilmCall(x, m, st)

\* Film.add_tape on one element: the type check, add_component, then
\* apply_attributes on children[-1] (every override None: nothing to apply)
AddOneTape(h, l, film, x, method, start) ==
    IF h[x].kind # "Tape"
    THEN [res |-> "TypeError", h |-> h, l |-> l]
    ELSE AddComponent(h, l, film, x, method, start)

\* Film.add_tape on a list: one add_tape per element, in order; an element
\* that raises ends the call and keeps what the earlier elements did
RECURSIVE AddTapeList(_, _, _, _, _, _)
AddTapeList(h, l, film, xs, method, start) ==
    IF xs = <<>> THEN [res |-> "ok", h |-> h, l |-> l]
    ELSE LET out == AddOneTape(h, l, film, Head(xs), method, start)
         IN  IF out.res # "ok" THEN out
             ELSE AddTapeList(out.h, out.l, film, Tail(xs), method, start)

ArgLists(h) == UNION {[1..n -> Args(h)] : n \in 0..MaxListLen}

\* film.add_tape(x, method, start) with x one object
AddTapeCall(film, x, m, st) ==
    /\ FreshId(heap) <= MaxObjs
    /\ Insertion("add_tape", AddOneTape(heap, lists, film, x, m, st))
    /\ UNCHANGED effects

\* film.add_tape(xs, method, start) with xs a list
AddTapeListCall(film, xs, m, st) ==
    /\ FreshId(heap) + Len(xs) - 1 <= MaxObjs
    /\ Insertion("add_tape", AddTapeList(heap, lists, film, xs, m, st))
    /\ UNCHANGED effects

\* an optional argument that is given (None when it is not)
Some(v) == [some |-> v]

\* Film.apply_attributes(tape, **attributes) on (h, fx): `effects +=`
\* extends the list object the tape refers to; pos, span, anchor and offset
\* are assigned to the tape; z_index puts a re-layered clip in tape.clip
ApplyAttributes(h, fx, tape, ov) ==
    LET t0 == h[tape]
        t1 == IF ov.pos # None THEN [t0 EXCEPT !.pos = ov.pos.some] ELSE t0
        t2 == IF ov.span # None THEN [t1 EXCEPT !.span = ov.span.some] ELSE t1
        t3 == IF ov.anchor # None THEN [t2 EXCEPT !.anchor = ov.anchor.some] ELSE t2
        t4 == IF ov.offset # None THEN [t3 EXCEPT !.offset = ov.offset.some] ELSE t3
        t5 == IF ov.z_index # None THEN [t4 EXCEPT !.layer = ov.z_index.some] ELSE t4
    IN  [h |-> [h EXCEPT ![tape] = t5],
         fx |-> IF ov.effects # None
                THEN [fx EXCEPT ![t0.effects] = @ \o ov.effects.some]
                ELSE fx]

\* Film.add_tape(x, method, start, effects, pos, span, anchor, offset,
\* z_index) on one element: the type check, add_component, then
\* apply_attributes on children[-1]
AddOneTapeWith(h, l, fx, film, x, method, start, ov) ==
    LET out == AddOneTape(h, l, film, x, method, start)
        kids == Kids(out.h, out.l, film)
        app == ApplyAttributes(out.h, fx, kids[Len(kids)], ov)
    IN  IF out.res # "ok"
        THEN [res |-> out.res, h |-> h, l |-> l, fx |-> fx]
        ELSE [res |-> "ok", h |-> app.h, l |-> out.l, fx |-> app.fx]

\* film.add_tape(x, method, start, ...) with x one object and overrides ov
AddTapeWithCall(film, x, m, st, ov) ==
    /\ FreshId(heap) <= MaxObjs
    /\ Insertion("add_tape", AddOneTapeWith(heap, lists, effects, film, x, m, st, ov))
    /\ effects' = AddOneTapeWith(heap, lists, effects, film, x, m, st, ov).fx

AddTape ==
    \E film \in OfKind(heap, "Film"), m \in Methods, st \in Starts :
        \/ \E x \in Args(heap) : AddTapeCall(film, x, m, st)
        \/ \E xs \in ArgLists(heap) : AddTapeListCall(film, xs, m, st)

\* ----------------------------------------------------------------- grid
\* Screen.__init__: size = (1920, 1080), handed to GridSystem
ScreenSize == <<1920, 1080>>
\* GridSystem.__init__
ColumnGap == ScreenSize[1] \div 12
RowGap == ScreenSize[2] \div 12

AnchorNames ==
    {center, left, right, top, bottom, topleft, topright, bottomleft, bottomright}

Raised(exc) == [res |-> exc]
Coord(x, y) == [res |-> "ok", xy |-> <<x, y>>]

\* fault: get_coords reading pos as (column, row)
GetCoordsSwapped(screen_size, size, pos, anchor, offset) ==
    LET offset_anchor == StrStrip(StrLower(anchor))
        column_gap == screen_size[1] \div 12
        row_gap == screen_size[2] \div 12
        w == size[1]
        h == size[2]
        default_x == pos[1] * column_gap
        default_y == pos[2] * row_gap
        mid_x == (default_x + column_gap \div 2) - w \div 2
        mid_y == (default_y + row_gap \div 2) - h \div 2
        left_x == default_x - offset[1] * (w \div 2)
        top_y == default_y - offset[2] * (h \div 2)
        right_x == (default_x + column_gap) - w + offset[1] * (w \div 2)
        bottom_y == default_y + row_gap - h + offset[2] * (h \div 2)
    IN  CASE offset_anchor = center      -> Coord(mid_x, mid_y)
          [] offset_anchor = left        -> Coord(left_x, mid_y)
          [] offset_anchor = top         -> Coord(mid_x, top_y)
          [] offset_anchor = right       -> Coord(right_x, mid_y)
          [] offset_anchor = bottom      -> Coord(mid_x, bottom_y)
          [] offset_anchor = topleft     -> Coord(left_x, top_y)
          [] offset_anchor = topright    -> Coord(right_x, top_y)
          [] offset_anchor = bottomleft  -> Coord(left_x, bottom_y)
          [] offset_anchor = bottomright -> Coord(right_x, bottom_y)
          [] OTHER                       -> Raised("ValueError")

\* GridSystem(screen_size).get_coords(clip, pos, anchor, offset) for a
\* screen whose sides are multiples of 24 and a clip of even width and
\* height (so that the gaps and every half are whole): the top-left pixel
\* of the clip, or ValueError for an anchor that is none of the nine names
GetCoordsOn(screen_size, size, pos, anchor, offset) ==
    LET offset_anchor == StrStrip(StrLower(anchor))
        column_gap == screen_size[1] \div 12
        row_gap == screen_size[2] \div 12
        w == size[1]
        h == size[2]
        default_x == pos[2] * column_gap
        default_y == pos[1] * row_gap
        offset_x == offset[1]
        offset_y == offset[2]
        mid_x == (default_x + column_gap \div 2) - w \div 2
        mid_y == (default_y + row_gap \div 2) - h \div 2
        left_x == default_x - offset_x * (w \div 2)
        top_y == default_y - offset_y * (h \div 2)
        right_x == (default_x + column_gap) - w + offset_x * (w \div 2)
        bottom_y == default_y + row_gap - h + offset_y * (h \div 2)
    IN  CASE offset_anchor = center      -> Coord(mid_x, mid_y)
          [] offset_anchor = left        -> Coord(left_x, mid_y)
          [] offset_anchor = top         -> Coord(mid_x, top_y)
          [] offset_anchor = right       -> Coord(right_x, mid_y)
          [] offset_anchor = bottom      -> Coord(mid_x, bottom_y)
          [] offset_anchor = topleft     -> Coord(left_x, top_y)
          [] offset_anchor = topright    -> Coord(right_x, top_y)
          [] offset_anchor = bottomleft  -> Coord(left_x, bottom_y)
          [] offset_anchor = bottomright -> Coord(right_x, bottom_y)
          [] OTHER                       -> Raised("ValueError")

\* GetCoords with a fault: an unknown anchor is placed as topleft
GetCoordsFallback(size, pos, anchor, offset) ==
    Coord(pos[2] * ColumnGap - offset[1] * (size[1] \div 2),
          pos[1] * RowGap - offset[2] * (size[2] \div 2))

\* GridSystem.get_coords(clip, pos, anchor, offset) for a clip of even
\* width and height (so that w/2 and h/2 are whole): the top-left pixel of
\* the clip, or ValueError for an anchor that is none of the nine names
GetCoords(size, pos, anchor, offset) ==
    LET offset_anchor == StrStrip(StrLower(anchor))
        w == size[1]
        h == size[2]
        default_x == pos[2] * ColumnGap
        default_y == pos[1] * RowGap
        offset_x == offset[1]
        offset_y == offset[2]
        mid_x == (default_x + ColumnGap \div 2) - w \div 2
        mid_y == (default_y + RowGap \div 2) - h \div 2
        left_x == default_x - offset_x * (w \div 2)
        top_y == default_y - offset_y * (h \div 2)
        right_x == (default_x + ColumnGap) - w + offset_x * (w \div 2)
        bottom_y == default_y + RowGap - h + offset_y * (h \div 2)
    IN  CASE offset_anchor = center      -> Coord(mid_x, mid_y)
          [] offset_anchor = left        -> Coord(left_x, mid_y)
          [] offset_anchor = top         -> Coord(mid_x, top_y)
          [] offset_anchor = right       -> Coord(right_x, mid_y)
          [] offset_anchor = bottom      -> Coord(mid_x, bottom_y)
          [] offset_anchor = topleft     -> Coord(left_x, top_y)
          [] offset_anchor = topright    -> Coord(right_x, top_y)
          [] offset_anchor = bottomleft  -> Coord(left_x, bottom_y)
          [] offset_anchor = bottomright -> Coord(right_x, bottom_y)
          [] OTHER                       -> Raised("ValueError")

\* ------------------------------------------------- animation functions
\* A float is kept as a ratio of integers.  The easing functions a call may
\* name; "None" is Python's None.
Easings == {"easeInQuad", "easeInQubic", "easeOutBack"}

\* easings.<name>(p / q) * 1000 as a ratio [num, den], den > 0, for q > 0
\* (easeOutBack: c1 = 1.70158 = 85079/50000, c3 = c1 + 1)
EasingTimes1000(name, p, q) ==
    CASE name = "easeInQuad"  -> [num |-> 1000 * p * p, den |-> q * q]
      [] name = "easeInQubic" -> [num |-> 1000 * p * p * p, den |-> q * q * q]
      [] name = "easeOutBack" ->
             [num |-> 50000 * q * q * q
                       + 135079 * (p - q) * (p - q) * (p - q)
                       + 85079 * (p - q) * (p - q) * q,
              den |-> 50 * q * q * q]

\* math.floor(easing_func(p / q) * 1000): the weight in thousandths
RelWeight(name, p, q) ==
    EasingTimes1000(name, p, q).num \div EasingTimes1000(name, p, q).den

\* fault: interpolate without the replacement of a zero weight
InterpolateExact(a, b, w) == a * 10000 + (b - a) * 10 * w

\* interpolate(a, b, w / 1000) in ten-thousandths: a + (b - a) * weight,
\* where a weight of 0 is replaced by 0.0001
Interpolate(a, b, w) ==
    a * 10000 + (b - a) * (IF w = 0 THEN 1 ELSE 10 * w)

\* fault: the fraction dropped downward, as math.floor does
IntOfFloor(num, den) == num \div den

\* int(num / den) for den > 0: the fraction is dropped, toward zero
IntOf(num, den) ==
    IF num >= 0 THEN num \div den ELSE 0 - ((0 - num) \div den)

Returned(v) == [res |-> "ok", v |-> v]

\* fault: oneToZeroAnim running from one down to zero, as it is named
OneToZeroAnimDown(t, duration, start_delay, easing_func) ==
    IF t < start_delay THEN Returned(10000)
    ELSE IF t - start_delay > duration THEN Returned(0)
    ELSE IF duration = 0 THEN Raised("ZeroDivisionError")
    ELSE IF easing_func = "None" THEN Raised("TypeError")
    ELSE Returned(Interpolate(1, 0, RelWeight(easing_func, t - start_delay, duration)))

\* oneToZeroAnim(t, duration, start_delay, easing_func); the value returned
\* is in ten-thousandths.  (t - start_delay) / duration comes first: with
\* duration 0 it divides zero by zero.
OneToZeroAnim(t, duration, start_delay, easing_func) ==
    IF t < start_delay THEN Returned(0)
    ELSE IF t - start_delay > duration THEN Returned(10000)
    ELSE IF duration = 0 THEN Raised("ZeroDivisionError")
    ELSE IF easing_func = "None" THEN Raised("TypeError")
    ELSE Returned(Interpolate(0, 1, RelWeight(easing_func, t - start_delay, duration)))

\* fault: moveAnim without its two early returns: outside the window the
\* weight is clamped to 0 or 1 and the position is interpolated like inside
MoveAnimClamped(t, from_position, to_position, duration, start_delay, easing_func) ==
    LET relWeight == IF t < start_delay THEN 0 ELSE 1000
    IN  IF start_delay <= t /\ t - start_delay <= duration
        THEN IF duration = 0 THEN Raised("ZeroDivisionError")
             ELSE IF easing_func = "None" THEN Raised("TypeError")
             ELSE LET w == RelWeight(easing_func, t - start_delay, duration)
                  IN  Returned(<<IntOf(Interpolate(from_position[1], to_position[1], w), 10000),
                                 IntOf(Interpolate(from_position[2], to_position[2], w), 10000)>>)
        ELSE Returned(<<IntOf(Interpolate(from_position[1], to_position[1], relWeight), 10000),
                        IntOf(Interpolate(from_position[2], to_position[2], relWeight), 10000)>>)

\* moveAnim(t, from_position, to_position, duration, start_delay,
\* easing_func)
MoveAnim(t, from_position, to_position, duration, start_delay, easing_func) ==
    IF t < start_delay THEN Returned(from_position)
    ELSE IF t - start_delay > duration THEN Returned(to_position)
    ELSE IF duration = 0 THEN Raised("ZeroDivisionError")
    ELSE IF easing_func = "None" THEN Raised("TypeError")
    ELSE LET relWeight == RelWeight(easing_func, t - start_delay, duration)
         IN  Returned(<<IntOf(Interpolate(from_position[1], to_position[1], relWeight), 10000),
                        IntOf(Interpolate(from_position[2], to_position[2], relWeight), 10000)>>)

\* fault: moveToMany without the clamp of the last segment index, so that
\* the final dwell window reads positions[len(positions)]
MoveToManyUnclamped(t, positions, each, ease_duration, start_delay, easing_func) ==
    LET duration == Len(positions) * each
        t_adj == t - start_delay
        current_index == t_adj \div each
        segment_time == t_adj - current_index * each
        relweight == RelWeight(easing_func, segment_time, ease_duration)
        at(i) == positions[i + 1]
    IN  IF positions = <<>> THEN Raised("IndexError")
        ELSE IF t < start_delay THEN Returned(at(0))
        ELSE IF t_adj >= duration THEN Returned(at(Len(positions) - 1))
        ELSE IF current_index >= Len(positions) - 1 THEN Raised("IndexError")
        ELSE IF segment_time <= ease_duration
        THEN IF ease_duration = 0 THEN Raised("ZeroDivisionError")
             ELSE IF easing_func = "None" THEN Raised("TypeError")
             ELSE Returned(<<IntOf(Interpolate(at(current_index)[1], at(current_index + 1)[1], relweight), 10000),
                             IntOf(Interpolate(at(current_index)[2], at(current_index + 1)[2], relweight), 10000)>>)
        ELSE Returned(at(current_index + 1))

\* moveToMany(t, positions, each, ease_duration, start_delay, easing_func)
\* for each > 0
MoveToMany(t, positions, each, ease_duration, start_delay, easing_func) ==
    LET duration == Len(positions) * each
        t_adj == t - start_delay
        current_index == t_adj \div each
        segment_time == t_adj - current_index * each
        relweight == RelWeight(easing_func, segment_time, ease_duration)
        \* positions[i] counted from 0, as in the code
        at(i) == positions[i + 1]
    IN  IF positions = <<>> THEN Raised("IndexError")
        ELSE IF t < start_delay THEN Returned(at(0))
        ELSE IF t_adj >= duration THEN Returned(at(Len(positions) - 1))
        ELSE IF current_index >= Len(positions) - 1
        THEN Returned(at(Len(positions) - 1))
        ELSE IF segment_time <= ease_duration
        THEN IF ease_duration = 0 THEN Raised("ZeroDivisionError")
             ELSE IF easing_func = "None" THEN Raised("TypeError")
             ELSE Returned(<<IntOf(Interpolate(at(current_index)[1], at(current_index + 1)[1], relweight), 10000),
                             IntOf(Interpolate(at(current_index)[2], at(current_index + 1)[2], relweight), 10000)>>)
        ELSE Returned(at(current_index + 1))

\* ------------------------------------------ the easing curves at 0 and 1
\* The curves are evaluated in IEEE doubles.  At x = 0 and x = 1 every
\* double that occurs is one of: a number c1*1.70158 + n/64 + eps, with c1 in
\* {-1, 0, 1}, n whole and eps counted in thousandths of 2^-53 (FNum); or a
\* finite double that is only ever multiplied by zero (Finite).
FNum(c1, n, eps) == [c1 |-> c1, n |-> n, eps |-> eps]
FInt(k) == FNum(0, 64 * k, 0)
FZero == FInt(0)
FOne == FInt(1)
Finite == [finite |-> TRUE]

\* the multiple of the spacing g nearest to e, the even one on a tie
RoundTo(e, g) ==
    LET q == e \div g
        r == e % g
    IN  IF 2 * r < g THEN q * g
        ELSE IF 2 * r > g THEN (q + 1) * g
        ELSE IF q % 2 = 0 THEN q * g ELSE (q + 1) * g

\* the spacing of the doubles around a/64 + s for a > 0 (s small), in
\* thousandths of 2^-53: 2^-53 in [1/2, 1), 2^-52 in [1, 2), ...
Spacing(a, s) ==
    LET up == CASE a \in 4..7     -> 125
                [] a \in 8..15    -> 250
                [] a \in 16..31   -> 500
                [] a \in 32..63   -> 1000
                [] a \in 64..127  -> 2000
                [] a \in 128..255 -> 4000
    IN  IF a \in {8, 16, 32, 64, 128} /\ s < 0 THEN up \div 2 ELSE up

\* the double nearest to the number v (round to nearest, ties to even); the
\* doubles around 0 are dense enough to hold every eps
Fl(v) ==
    IF v.c1 = 0
    THEN IF v.n = 0 THEN v
         ELSE IF v.n > 0 THEN [v EXCEPT !.eps = RoundTo(v.eps, Spacing(v.n, v.eps))]
         ELSE [v EXCEPT !.eps = 0 - RoundTo(0 - v.eps, Spacing(0 - v.n, 0 - v.eps))]
    ELSE LET sg == v.c1
             \* the double 1.70158 is 1 + F * 2^-52 with F = 4k + 1
             C1Mod4 == 1
             g == CASE sg * v.n = 64       -> 4000
                    [] sg * v.n = 0        -> 2000
                    [] sg * v.n = 0 - 64   -> 1000
             at == C1Mod4 * 2000 + sg * v.eps
         IN  [v EXCEPT !.eps = sg * (RoundTo(at, g) - C1Mod4 * 2000)]

FNeg(a) == IF a = Finite THEN Finite ELSE FNum(0 - a.c1, 0 - a.n, 0 - a.eps)

FAdd(a, b) ==
    IF a = Finite \/ b = Finite THEN Finite
    ELSE Fl(FNum(a.c1 + b.c1, a.n + b.n, a.eps + b.eps))

FSub(a, b) == FAdd(a, FNeg(b))

\* a * b where one factor is zero, one or minus one, or both are whole
FMul(a, b) ==
    CASE a = FZero \/ b = FZero -> FZero
      [] a # FZero /\ b # FZero /\ (a = Finite \/ b = Finite) -> Finite
      [] a = FOne /\ b \notin {FZero, Finite} -> b
      [] b = FOne /\ a \notin {FZero, FOne, Finite} -> a
      [] a = FInt(0 - 1) /\ b \notin {FZero, FOne, Finite} -> FNeg(b)
      [] b = FInt(0 - 1) /\ a \notin {FZero, FOne, FInt(0 - 1), Finite} -> FNeg(a)

\* a / 2, which is exact
FHalf(a) == IF a = Finite THEN Finite ELSE FNum(a.c1, a.n \div 2, a.eps \div 2)

\* math.pow(a, k) for a in {-1, 0, 1} and k > 0, and math.pow(2, 0)
FPow(a, k) ==
    CASE a = FZero /\ k > 0 -> FZero
      [] a = FOne -> FOne
      [] a = FInt(0 - 1) -> IF k % 2 = 0 THEN FOne ELSE FInt(0 - 1)
      [] a = FInt(2) /\ k = 0 -> FOne

\* math.sqrt(0) and math.sqrt(1)
FSqrt(a) == CASE a = FZero -> FZero [] a = FOne -> FOne

\* math.cos((x * math.pi) / 2): cos(0) is 1; the double nearest pi/2 is
\* below pi/2 and its cosine is the double 6.123233995736766e-17
FCosHalfPi(x) == IF x = 0 THEN FOne ELSE FNum(0, 0, 552)
\* math.sin((x * math.pi) / 2): sin(0) is 0, and 1.0 at the double nearest pi/2
FSinHalfPi(x) == IF x = 0 THEN FZero ELSE FOne
\* math.cos(math.pi * x): cos(0) is 1, and -1.0 at the double nearest pi
FCosPi(x) == IF x = 0 THEN FOne ELSE FInt(0 - 1)

\* n1 = 7.5625, d1 = 2.75.  At x = 0 the first arc, n1 * x * x; at x = 1 the
\* last arc: x -= 2.625 / d1, and n1 * x * x is the double
\* 1/64 - 265.6 * 2^-53 / 1000, to which 0.984375 is added
easeOutBounce(x) ==
    IF x = 0 THEN FMul(FMul(Finite, FInt(x)), FInt(x))
    ELSE FAdd(FNum(0, 1, 0 - 266), FNum(0, 63, 0))

\* fault: easeInBounce without the reflection of its argument
easeInBounceUnreflected(x) == FSub(FOne, easeOutBounce(x))

easeInBounce(x) == FSub(FOne, easeOutBounce(1 - x))

EasingNames ==
    {"easeInSine", "easeOutSine", "easeInOutSine", "easeInQuad", "easeOutQuad",
     "easeInOutQuad", "easeInQubic", "easeOutCubic", "easeInOutCubic",
     "easeInQuart", "easeOutQuart", "easeInOutQuart", "easeInQuint",
     "easeOutQuint", "easeInOutQuint", "easeInExpo", "easeOutExpo",
     "easeInOutExpo", "easeInCirc", "easeOutCirc", "easeInOutCirc",
     "easeInBack", "easeOutBack", "easeInOutBack", "easeInElastic",
     "easeOutElastic", "easeInOutElastic", "easeOutBounce", "easeInBounce",
     "easeInOutBounce"}

\* the call easings.<name>(x) for x in {0, 1}: the expression the function of
\* that name returns, operation by operation
EasingCall(name, x) ==
    LET X == FInt(x)
        \* -2 * x + 2, the argument of the second halves
        back == FAdd(FMul(FInt(0 - 2), X), FInt(2))
        \* c1 = 1.70158, c3 = c1 + 1; c2 = c1 * 1.525 only meets zero factors
        c1 == FNum(1, 0, 0)
        c3 == FAdd(c1, FOne)
        c2 == Finite
    IN
    CASE name = "easeInSine" -> FSub(FOne, FCosHalfPi(x))
      [] name = "easeOutSine" -> FSinHalfPi(x)
      [] name = "easeInOutSine" -> FHalf(FNeg(FSub(FCosPi(x), FOne)))
      [] name = "easeInQuad" -> FMul(X, X)
      [] name = "easeOutQuad" -> FSub(FOne, FMul(FSub(FOne, X), FSub(FOne, X)))
      [] name = "easeInOutQuad" ->
             IF 2 * x < 1 THEN FMul(FMul(FInt(2), X), X)
             ELSE FSub(FOne, FHalf(FPow(back, 2)))
      [] name = "easeInQubic" -> FMul(FMul(X, X), X)
      [] name = "easeOutCubic" -> FSub(FOne, FPow(FSub(FOne, X), 3))
      [] name = "easeInOutCubic" ->
             IF 2 * x < 1 THEN FMul(FMul(FMul(FInt(4), X), X), X)
             ELSE FSub(FOne, FHalf(FPow(back, 3)))
      [] name = "easeInQuart" -> FMul(FMul(FMul(X, X), X), X)
      [] name = "easeOutQuart" -> FSub(FOne, FPow(FSub(FOne, X), 4))
      [] name = "easeInOutQuart" ->
             IF 2 * x < 1 THEN FMul(FMul(FMul(FMul(FInt(8), X), X), X), X)
             ELSE FSub(FOne, FHalf(FPow(back, 4)))
      [] name = "easeInQuint" -> FMul(FMul(FMul(FMul(X, X), X), X), X)
      [] name = "easeOutQuint" -> FSub(FOne, FPow(FSub(FOne, X), 5))
      [] name = "easeInOutQuint" ->
             IF 2 * x < 1
             THEN FMul(FMul(FMul(FMul(FMul(FInt(16), X), X), X), X), X)
             ELSE FSub(FOne, FHalf(FPow(back, 5)))
      [] name = "easeInExpo" ->
             IF x = 0 THEN FZero ELSE FPow(FInt(2), 10 * x - 10)
      [] name = "easeOutExpo" ->
             IF x = 1 THEN FOne ELSE FSub(FOne, FPow(FInt(2), 0 - 10 * x))
      [] name = "easeInOutExpo" -> IF x = 0 THEN FZero ELSE FOne
      [] name = "easeInCirc" -> FSub(FOne, FSqrt(FSub(FOne, FPow(X, 2))))
      [] name = "easeOutCirc" -> FSqrt(FSub(FOne, FPow(FSub(X, FOne), 2)))
      [] name = "easeInOutCirc" ->
             IF 2 * x < 1
             THEN FHalf(FSub(FOne, FSqrt(FSub(FOne, FPow(FMul(FInt(2), X), 2)))))
             ELSE FHalf(FAdd(FSqrt(FSub(FOne, FPow(back, 2))), FOne))
      [] name = "easeInBack" ->
             FSub(FMul(FMul(FMul(c3, X), X), X), FMul(FMul(c1, X), X))
      [] name = "easeOutBack" ->
             FAdd(FAdd(FOne, FMul(c3, FPow(FSub(X, FOne), 3))),
                  FMul(c1, FPow(FSub(X, FOne), 2)))
      [] name = "easeInOutBack" ->
             IF 2 * x < 1
             THEN FHalf(FMul(FPow(FMul(FInt(2), X), 2),
                             FSub(FMul(FMul(FAdd(c2, FOne), FInt(2)), X), c2)))
             ELSE FHalf(FAdd(FMul(FPow(FSub(FMul(FInt(2), X), FInt(2)), 2),
                                  FAdd(FMul(FAdd(c2, FOne),
                                            FSub(FMul(X, FInt(2)), FInt(2))), c2)),
                             FInt(2)))
      [] name = "easeInElastic" -> IF x = 0 THEN FZero ELSE FOne
      [] name = "easeOutElastic" -> IF x = 0 THEN FZero ELSE FOne
      [] name = "easeInOutElastic" -> IF x = 0 THEN FZero ELSE FOne
      [] name = "easeOutBounce" -> easeOutBounce(x)
      [] name = "easeInBounce" -> easeInBounce(x)
      [] name = "easeInOutBounce" ->
             IF 2 * x < 1 THEN FHalf(FSub(FOne, easeOutBounce(1 - 2 * x)))
             ELSE FHalf(FAdd(FOne, easeOutBounce(2 * x - 1)))

\* ------------------------------------------------------- invert_easing
\* invert_easing(fn, y_target, tol) with tol = 1/8, which keeps every number
\* whole: x is counted in 32nds (so 1.0 is 32 and tol is 4), a value
\* func(x) = fn(x) - y_target in 16ths (so tol is 2).
XOne == 32
XTol == 4
FTol == 2
MaxIter == 100
FVals == (0 - MaxF)..MaxF

Abs(x) == IF x < 0 THEN 0 - x ELSE x

\* bisect, lines 20-39: the checks before the loop on fa = func(a) and
\* fb = func(b); the endpoint returned, or "loop"
BisectEnds(a, b, fa, fb) ==
    IF Abs(fa) < FTol THEN Returned(a)
    ELSE IF Abs(fb) < FTol THEN Returned(b)
    ELSE IF fa * fb >= 0
    THEN IF fa > 0 /\ fb > 0 THEN Returned(IF fa < fb THEN a ELSE b)
         ELSE IF fa < 0 /\ fb < 0 THEN Returned(IF fa > fb THEN a ELSE b)
         ELSE Returned(IF Abs(fa) < Abs(fb) THEN a ELSE b)
    ELSE [res |-> "loop"]

\* fault: one pass of the loop that keeps the half [c, b] when fa and fc
\* differ in sign, and [a, c] otherwise
BisectPassWrongHalf(r, fc) ==
    LET c == (r.a + r.b) \div 2
    IN  IF r.i >= MaxIter
        THEN [r EXCEPT !.pc = "done", !.out = Returned((r.a + r.b) \div 2)]
        ELSE IF r.b - r.a < XTol THEN [r EXCEPT !.pc = "done", !.out = Returned(c)]
        ELSE IF Abs(fc) < FTol THEN [r EXCEPT !.pc = "done", !.out = Returned(c)]
        ELSE IF r.fa * fc < 0
        THEN [r EXCEPT !.a = c, !.fa = fc, !.i = r.i + 1]
        ELSE [r EXCEPT !.b = c, !.fb = fc, !.i = r.i + 1]

\* bisect, lines 42-65: one pass of the loop on the run r, fc being
\* func(c) if the pass evaluates it; after maxiter passes the midpoint
BisectPass(r, fc) ==
    LET c == (r.a + r.b) \div 2
    IN  IF r.i >= MaxIter
        THEN [r EXCEPT !.pc = "done", !.out = Returned((r.a + r.b) \div 2)]
        ELSE IF r.b - r.a < XTol THEN [r EXCEPT !.pc = "done", !.out = Returned(c)]
        ELSE IF Abs(fc) < FTol THEN [r EXCEPT !.pc = "done", !.out = Returned(c)]
        ELSE IF r.fa * fc < 0
        THEN [r EXCEPT !.b = c, !.fb = fc, !.i = r.i + 1]
        ELSE [r EXCEPT !.a = c, !.fa = fc, !.i = r.i + 1]

\* -------------------------------------------------------------- compose
RECURSIVE ConcatAll(_, _)
ConcatAll(f, n) == IF n = 0 THEN <<>> ELSE ConcatAll(f, n - 1) \o f[n]

\* the (film, tape) pairs and (tape, sound) pairs that compose() walks
Grandkids(h, l, o) ==
    LET kids == Kids(h, l, o)
    IN  ConcatAll([i \in 1..Len(kids) |-> Kids(h, l, kids[i])], Len(kids))

\* isinstance(position_anim.pos, tuple): one target; else a list of keyframes
IsTuple(p) == "tuple" \in DOMAIN p

\* the get_coords of each keyframe in order (one anchor and one offset for
\* all of them), or the first error raised
RECURSIVE ManyCoords(_, _, _, _)
ManyCoords(size, ps, anchor, offset) ==
    IF ps = <<>> THEN [res |-> "ok", list |-> <<>>]
    ELSE LET c == GetCoords(size, Head(ps), anchor, offset)
             rest == ManyCoords(size, Tail(ps), anchor, offset)
         IN  IF c.res # "ok" THEN c
             ELSE IF rest.res # "ok" THEN rest
             ELSE [res |-> "ok", list |-> <<c.xy>> \o rest.list]

\* the position compose() gives the clip of Tape record t whose position
\* slot is pa: a moveAnim or moveToMany closure over resolved coordinates,
\* a fixed coordinate, or None (custom_position and no animation); or the
\* error get_coords raised on the way
TapePosition(t, pa) ==
    LET own == GetCoords(t.size, t.pos, t.anchor, t.offset)
    IN  IF pa # None
        THEN IF IsTuple(pa.pos)
             THEN LET to == GetCoords(t.size, pa.pos.tuple, pa.anchor, pa.offset)
                  IN  IF own.res # "ok" THEN own
                      ELSE IF to.res # "ok" THEN to
                      ELSE [res |-> "ok",
                            pos |-> [fn |-> "moveAnim",
                                     from_position |-> own.xy,
                                     to_position |-> to.xy,
                                     duration |-> pa.duration,
                                     start_delay |-> pa.start_delay,
                                     easing_func |-> pa.easing_func]]
             ELSE LET many == IF pa.no_grid
                              THEN [res |-> "ok", list |-> pa.pos.list]
                              ELSE ManyCoords(t.size, pa.pos.list, pa.anchor, pa.offset)
                  IN  IF many.res # "ok" THEN many
                      ELSE [res |-> "ok",
                            pos |-> [fn |-> "moveToMany",
                                     positions |-> many.list,
                                     each |-> pa.each,
                                     ease_duration |-> pa.duration,
                                     start_delay |-> pa.start_delay,
                                     easing_func |-> pa.easing_func]]
        ELSE IF ~t.custom_position
        THEN IF own.res # "ok" THEN own
             ELSE [res |-> "ok", pos |-> [fn |-> "fixed", xy |-> own.xy]]
        ELSE [res |-> "ok", pos |-> None]

\* one pass of compose()'s inner loop over grandchild g of the Screen: "ok"
\* or the exception it raises.  compose() reads g.animations (only a Tape
\* has it), resolves the position, then reads adjust_to_clip of every child
\* of g (only a Sound has it).
TapeStep(h, l, an, g) ==
    IF h[g].kind # "Tape" THEN "AttributeError"
    ELSE IF TapePosition(h[g], an[h[g].animations].position).res # "ok"
    THEN TapePosition(h[g], an[h[g].animations].position).res
    ELSE IF \E j \in 1..Len(Kids(h, l, g)) : h[Kids(h, l, g)[j]].kind # "Sound"
    THEN "AttributeError"
    ELSE "ok"

\* the outcome of the two loops: the exception of the first grandchild that
\* raises, or "ok"
ComposeLoops(h, l, an) ==
    LET gs == Grandkids(h, l, ScreenId)
        bad == {i \in 1..Len(gs) : TapeStep(h, l, an, gs[i]) # "ok"}
    IN  IF bad = {} THEN "ok"
        ELSE TapeStep(h, l, an, gs[CHOOSE i \in bad : \A j \in bad : i <= j])

\* composelist after the background: one clip per tape, in tree order, with
\* its position, its effects as the list holds them now, its layer and its
\* start (clip.with_start(tape.begin); custom_start is False by construction)
VideoList(h, l, fx, an) ==
    LET tapes == Grandkids(h, l, ScreenId)
    IN  [i \in 1..Len(tapes) |->
            [start |-> h[tapes[i]].begin, dur |-> h[tapes[i]].dur,
             pos |-> TapePosition(h[tapes[i]],
                                  an[h[tapes[i]].animations].position).pos,
             effects |-> fx[h[tapes[i]].effects],
             layer |-> h[tapes[i]].layer]]

\* audiocomposelist: one stamped clip per sound of each tape
\* (sound.clip.with_start(tape.begin + sound.begin); adjust_to_clip is False)
AudioList(h, l) ==
    LET tapes == Grandkids(h, l, ScreenId)
    IN  ConcatAll([i \in 1..Len(tapes) |->
                     [j \in 1..Len(Kids(h, l, tapes[i])) |->
                        [start |-> h[tapes[i]].begin + h[Kids(h, l, tapes[i])[j]].begin,
                         dur |-> h[Kids(h, l, tapes[i])[j]].dur]]],
                  Len(tapes))

\* bg_music.clip.subclipped(start_offset, total_duration + start_offset):
\* moviepy's Clip.subclipped raises ValueError for a start at or beyond the
\* clip's duration and for an end beyond it
BgMusicFits(bg, total) ==
    /\ bg.start_offset < bg.dur
    /\ total + bg.start_offset <= bg.dur

\* Screen.compose(): the outcome, total_duration and _end it leaves.
\* _end is assigned after the loops and before the background music is cut.
ComposeOutcome(h, l, fx, an, bg, e, td) ==
    IF Len(Kids(h, l, ScreenId)) = 0
    THEN [res |-> "ValueError", end |-> e, td |-> td]
    ELSE IF Finish(h, l, ScreenId) = RecErr
    THEN [res |-> "RecursionError", end |-> e, td |-> td]
    ELSE IF ComposeLoops(h, l, an) # "ok"
    THEN [res |-> ComposeLoops(h, l, an), end |-> e, td |-> Finish(h, l, ScreenId)]
    ELSE IF bg # None /\ ~BgMusicFits(bg, Finish(h, l, ScreenId))
    THEN [res |-> "ValueError",
          end |-> [total |-> Finish(h, l, ScreenId),
                   video |-> VideoList(h, l, fx, an),
                   audio |-> <<>>],
          td |-> Finish(h, l, ScreenId)]
    ELSE [res |-> "ok",
          end |-> [total |-> Finish(h, l, ScreenId),
                   video |-> VideoList(h, l, fx, an),
                   audio |-> AudioList(h, l) \o
                             (IF bg = None THEN <<>>
                              ELSE <<[start |-> 0, dur |-> Finish(h, l, ScreenId)]>>)],
          td |-> Finish(h, l, ScreenId)]

Compose ==
    LET out == ComposeOutcome(heap, lists, effects, animations, bg_music,
                              end, total_duration)
    IN  /\ end' = out.end
        /\ total_duration' = out.td
        /\ last' = Call("compose", out.res)
        /\ UNCHANGED <<heap, lists, effects, animations, bg_music, ev>>

\* ----------------------------------------------------------- animations
\* every Tape the client can name: its own, and the copies in film.children
Tapes(h) == {o \in Used(h) : h[o].kind = "Tape"}

\* PositionAnimation(...): the dataclass fields as given
PositionAnimation(pos, duration, easing_func, start_delay, anchor, offset, no_grid, each) ==
    [pos |-> pos, duration |-> duration, easing_func |-> easing_func,
     start_delay |-> start_delay, anchor |-> anchor, offset |-> offset,
     no_grid |-> no_grid, each |-> each]

\* tape.with_position_animation(**pa): the slot of the AnimationSet the
\* tape refers to is assigned
WithPositionAnimationCall(tape, pa) ==
    /\ animations' = [animations EXCEPT ![heap[tape].animations].position = pa]
    /\ last' = Call("with_position_animation", "ok")
    /\ UNCHANGED <<heap, lists, effects, bg_music, end, total_duration, ev>>

\* dict.get(key, default)
Get(config, key, default) ==
    IF key \in DOMAIN config THEN config[key] ELSE default

\* tape.with_animations({"position": config}): with_position_animation with
\* the defaults of the legacy method, easing_func None when not configured;
\* nothing when the config has no pos
WithAnimationsCall(tape, config) ==
    /\ animations' =
          IF Get(config, "pos", None) # None
          THEN [animations EXCEPT ![heap[tape].animations].position =
                  PositionAnimation(config.pos,
                                    Get(config, "duration", 1),
                                    Get(config, "easing_func", "None"),
                                    Get(config, "start_delay", 0),
                                    Get(config, "anchor", topleft),
                                    Get(config, "offset", <<0, 0>>),
                                    Get(config, "no_grid", FALSE),
                                    Get(config, "each", 1))]
          ELSE animations
    /\ last' = Call("with_animations", "ok")
    /\ UNCHANGED <<heap, lists, effects, bg_music, end, total_duration, ev>>

\* tape.with_scale_animation(scale): easing_func defaults to None
WithScaleAnimationCall(tape, scale) ==
    /\ animations' = [animations EXCEPT ![heap[tape].animations].scale =
                         [scale |-> scale, duration |-> 1, easing_func |-> "None",
                          start_delay |-> 0, maintain_aspect |-> TRUE]]
    /\ last' = Call("with_scale_animation", "ok")
    /\ UNCHANGED <<heap, lists, effects, bg_music, end, total_duration, ev>>

\* tape.with_custom_animation(name, animation): custom[name] = animation
WithCustomAnimationCall(tape, name, animation) ==
    /\ animations' =
          [animations EXCEPT ![heap[tape].animations].custom =
              [n \in DOMAIN @ \cup {name} |-> IF n = name THEN animation ELSE @[n]]]
    /\ last' = Call("with_custom_animation", "ok")
    /\ UNCHANGED <<heap, lists, effects, bg_music, end, total_duration, ev>>

\* ------------------------------------------------- music and the queries
\* Screen.add_bg_music(sound, 0, 0, start_offset): a copy of the Sound with
\* its fades and start_offset set
AddBgMusicCall(sound, start_offset) ==
    /\ bg_music' = [dur |-> heap[sound].dur, start_offset |-> start_offset]
    /\ last' = Call("add_bg_music", "ok")
    /\ UNCHANGED <<heap, lists, effects, animations, end, total_duration, ev>>

\* Screen._ensure_ready(): RuntimeError unless _end is set
EnsureReady(e) == IF e = None THEN "RuntimeError" ELSE "ok"

\* render, get_end_video, show, preview: _ensure_ready(), then _end is read
Queries == {"render", "get_end_video", "show", "preview"}

Query(q) ==
    /\ last' = Call(q, EnsureReady(end))
    /\ UNCHANGED <<heap, lists, effects, animations, bg_music, end, total_duration, ev>>

\* -------------------------------------------------------- specifications
\* Spec: every insertion gets what its signature names or what it checks
\* itself (add_sound a Sound, add_film a Film, add_tape anything).
AddSound == AddSoundOf(OfKind(heap, "Sound"))
AddFilm == AddFilmOf(OfKind(heap, "Film"))

Next ==
    \/ SetBegin
    \/ AddSound
    \/ AddTape
    \/ AddFilm
    \/ Compose

Spec == Init /\ [][Next]_vars

\* SpecBuild: the client only inserts (begin is never assigned by hand) and
\* composes.
NextBuild ==
    \/ AddSound
    \/ AddTape
    \/ AddFilm
    \/ Compose

SpecBuild == Init /\ [][NextBuild]_vars

\* SpecAny: add_sound and add_film are also handed components of other kinds
\* (the client leaves begin as constructed).
AddSoundAny == AddSoundOf(Args(heap))
AddFilmAny == AddFilmOf(Args(heap))

NextAny ==
    \/ AddSoundAny
    \/ AddTape
    \/ AddFilmAny
    \/ Compose

SpecAny == Init /\ [][NextAny]_vars

\* SpecStage: the client animates its Tape (custom_position either way) and
\* the copies in the Film, inserts it with per-insertion overrides, and
\* composes.  Clips last 1 and insertions are 'compose' at start 0.

\* anchors a client writes: " Center " is the name center, "middle" is none
SpacedCenter == <<" ", "C", "e", "n", "t", "e", "r", " ">>
middle == <<"m", "i", "d", "d", "l", "e">>

NoOverrides ==
    [effects |-> None, pos |-> None, span |-> None, anchor |-> None,
     offset |-> None, z_index |-> None]

OverridePool ==
    { NoOverrides,
      [effects |-> Some(<<"FadeIn">>), pos |-> Some(<<1, 2>>),
       span |-> Some(<<2, 2>>), anchor |-> Some(SpacedCenter),
       offset |-> Some(<<1, 1>>), z_index |-> Some(1)],
      [NoOverrides EXCEPT !.anchor = Some(middle)] }

\* with_position_animation(pos, anchor = ..., no_grid = ...), the other
\* parameters at their defaults
PosAnimPool ==
    { PositionAnimation([tuple |-> <<1, 1>>], 1, "easeInQuad", 0, middle,
                        <<0, 0>>, FALSE, 1),
      PositionAnimation([list |-> << <<0, 0>>, <<1, 1>> >>], 1, "easeInQuad", 0,
                        middle, <<0, 0>>, FALSE, 1),
      PositionAnimation([list |-> << <<0, 0>>, <<1, 1>> >>], 1, "easeInQuad", 0,
                        middle, <<0, 0>>, TRUE, 1),
      PositionAnimation([list |-> << <<0, 0>>, <<1, 1>> >>], 1, "easeInQuad", 0,
                        SpacedCenter, <<0, 0>>, FALSE, 1) }

ConfigPool == { [pos |-> [tuple |-> <<1, 1>>]], [duration |-> 2] }

MaxEffects == 2       \* longest effects list

StageInit == (\E cp \in BOOLEAN : Constructed(1, 1, cp)) /\ ev = Idle

StageAddTape ==
    \E x \in OfKind(heap, "Tape"), ov \in OverridePool :
        /\ ov.effects # None =>
               Len(effects[heap[x].effects]) + Len(ov.effects.some) <= MaxEffects
        /\ AddTapeWithCall(FilmId, x, "compose", 0, ov)

StageAddFilm == AddFilmCall(FilmId, "compose", 0)

WithPositionAnimation ==
    \E tape \in Tapes(heap), pa \in PosAnimPool : WithPositionAnimationCall(tape, pa)

WithAnimations ==
    \E tape \in Tapes(heap), config \in ConfigPool : WithAnimationsCall(tape, config)

WithScaleAnimation ==
    \E tape \in Tapes(heap) : WithScaleAnimationCall(tape, 2)

\* Animation(): duration 1.0, start_delay 0.0, easing_func None
WithCustomAnimation ==
    \E tape \in Tapes(heap) :
        WithCustomAnimationCall(tape, "shake",
            [duration |-> 1, start_delay |-> 0, easing_func |-> "None"])

NextStage ==
    \/ StageAddTape
    \/ StageAddFilm
    \/ WithPositionAnimation
    \/ WithAnimations
    \/ WithScaleAnimation
    \/ WithCustomAnimation
    \/ Compose

SpecStage == StageInit /\ [][NextStage]_vars

\* SpecShow: the client builds a Screen of plain Tapes, sets background
\* music, composes, and queries the result at any moment.
ShowAddTape == AddTapeCall(FilmId, TapeId, "compose", 0)

AddBgMusic ==
    \E sound \in OfKind(heap, "Sound"), so \in Starts : AddBgMusicCall(sound, so)

Render == Query("render")
GetEndVideo == Query("get_end_video")
Show == Query("show")
Preview == Query("preview")

NextShow ==
    \/ ShowAddTape
    \/ StageAddFilm
    \/ AddBgMusic
    \/ Compose
    \/ Render
    \/ GetEndVideo
    \/ Show
    \/ Preview

SpecShow == Init /\ [][NextShow]_vars

\* SpecCache: as SpecShow, and the client keeps in `ev` the handle that the
\* last compose() that returned has produced.
ComposeKept ==
    LET out == ComposeOutcome(heap, lists, effects, animations, bg_music,
                              end, total_duration)
    IN  /\ end' = out.end
        /\ total_duration' = out.td
        /\ last' = Call("compose", out.res)
        /\ ev' = IF out.res = "ok" THEN [fn |-> "composed", handle |-> out.end]
                 ELSE ev
        /\ UNCHANGED <<heap, lists, effects, animations, bg_music>>

NextCache ==
    \/ ShowAddTape
    \/ StageAddFilm
    \/ AddBgMusic
    \/ ComposeKept
    \/ Render
    \/ GetEndVideo
    \/ Show
    \/ Preview

SpecCache == Init /\ [][NextCache]_vars

\* SpecAnim: one call of an animation function, its arguments drawn when the
\* call is made; `ev` is the call and what it returned.  On every input
\* drawn here the ratios above give what the float computation gives.
Times == 0..MaxT
AnimDurs == 1..MaxAnimDur
Eachs == 1..MaxEach
EasingArgs == Easings \cup {"None"}
PixelPool == {<<0, 0>>, <<100, 50>>, <<0 - 30, 7>>}
KeyframePool ==
    { <<<<0, 0>>>>,
      <<<<0, 0>>, <<100, 0>>, <<200, 0>>>>,
      <<<<100, 50>>, <<0, 0>>>>,
      <<<<0 - 30, 7>>, <<100, 50>>, <<0, 0>>>> }

Pending == [res |-> "pending"]

MoveAnimCalls ==
    [fn : {"moveAnim"}, t : Times, from_position : PixelPool,
     to_position : PixelPool, duration : AnimDurs, start_delay : Starts,
     easing_func : EasingArgs, out : {Pending}]

MoveToManyCalls ==
    [fn : {"moveToMany"}, t : Times, positions : KeyframePool, each : Eachs,
     ease_duration : AnimDurs, start_delay : Starts,
     easing_func : EasingArgs, out : {Pending}]

OneToZeroAnimCalls ==
    [fn : {"oneToZeroAnim"}, t : Times, duration : AnimDurs,
     start_delay : Starts, easing_func : EasingArgs, out : {Pending}]

AnimInit ==
    /\ Constructed(1, 1, FALSE)
    /\ ev \in MoveAnimCalls \cup MoveToManyCalls \cup OneToZeroAnimCalls

EvalMoveAnim ==
    /\ ev.fn = "moveAnim"
    /\ ev.out = Pending
    /\ ev' = [ev EXCEPT !.out = MoveAnim(ev.t, ev.from_position, ev.to_position,
                                         ev.duration, ev.start_delay,
                                         ev.easing_func)]
    /\ UNCHANGED <<heap, lists, effects, animations, bg_music, end,
                   total_duration, last>>

EvalMoveToMany ==
    /\ ev.fn = "moveToMany"
    /\ ev.out = Pending
    /\ ev' = [ev EXCEPT !.out = MoveToMany(ev.t, ev.positions, ev.each,
                                           ev.ease_duration, ev.start_delay,
                                           ev.easing_func)]
    /\ UNCHANGED <<heap, lists, effects, animations, bg_music, end,
                   total_duration, last>>

EvalOneToZeroAnim ==
    /\ ev.fn = "oneToZeroAnim"
    /\ ev.out = Pending
    /\ ev' = [ev EXCEPT !.out = OneToZeroAnim(ev.t, ev.duration,
                                              ev.start_delay, ev.easing_func)]
    /\ UNCHANGED <<heap, lists, effects, animations, bg_music, end,
                   total_duration, last>>

NextAnim ==
    \/ EvalMoveAnim
    \/ EvalMoveToMany
    \/ EvalOneToZeroAnim

SpecAnim == AnimInit /\ [][NextAnim]_vars

\* SpecAnimZero: as SpecAnim, and the call may also name a duration (an
\* ease_duration for moveToMany) of 0.
WithZeroDuration(c) ==
    IF c.fn = "moveToMany" THEN [c EXCEPT !.ease_duration = 0]
    ELSE [c EXCEPT !.duration = 0]

AnimZeroInit ==
    /\ Constructed(1, 1, FALSE)
    /\ \E c \in MoveAnimCalls \cup MoveToManyCalls \cup OneToZeroAnimCalls :
           ev \in {c, WithZeroDuration(c)}

SpecAnimZero == AnimZeroInit /\ [][NextAnim]_vars

\* SpecPlay: the client configures the position animation of its Tape with
\* with_animations, builds the Screen, composes, and the composed clips'
\* position functions are called at times within the clips' durations.
PlayConfigPool ==
    { [pos |-> [tuple |-> <<1, 1>>]],
      [pos |-> [tuple |-> <<1, 1>>], easing_func |-> "easeInQuad", duration |-> 2],
      [pos |-> [list |-> << <<0, 0>>, <<1, 1>> >>], each |-> 2],
      [pos |-> [list |-> << <<0, 0>>, <<1, 1>> >>], easing_func |-> "easeInQubic"],
      [pos |-> [tuple |-> <<1, 1>>], easing_func |-> "easeInQuad", no_grid |-> TRUE],
      [pos |-> [list |-> << <<0, 0>>, <<1, 1>> >>], easing_func |-> "easeInQuad",
       no_grid |-> TRUE] }

PlayInit == (\E dt \in Durs : Constructed(dt, 1, FALSE)) /\ ev = Idle

PlayWithAnimations ==
    \E tape \in Tapes(heap), config \in PlayConfigPool :
        WithAnimationsCall(tape, config)

\* the lambda compose() handed to clip.with_position, called at t
PositionAt(pos, t) ==
    IF pos.fn = "moveAnim"
    THEN MoveAnim(t, pos.from_position, pos.to_position, pos.duration,
                  pos.start_delay, pos.easing_func)
    ELSE MoveToMany(t, pos.positions, pos.each, pos.ease_duration,
                    pos.start_delay, pos.easing_func)

Position ==
    /\ end # None
    /\ \E i \in 1..Len(end.video) :
         /\ end.video[i].pos # None
         /\ end.video[i].pos.fn \in {"moveAnim", "moveToMany"}
         /\ \E t \in 0..end.video[i].dur :
              ev' = [fn |-> "position", pos |-> end.video[i].pos, t |-> t,
                     out |-> PositionAt(end.video[i].pos, t)]
    /\ UNCHANGED <<heap, lists, effects, animations, bg_music, end,
                   total_duration, last>>

NextPlay ==
    \/ ShowAddTape
    \/ StageAddFilm
    \/ PlayWithAnimations
    \/ Compose
    \/ Position

SpecPlay == PlayInit /\ [][NextPlay]_vars

\* SpecGrid: one call of get_coords on a grid of its own, the arguments
\* drawn when the call is made.
Cells == 0..MaxCell
ScreenPool == {<<1920, 1080>>, <<1200, 1200>>}
ClipSizePool == {<<200, 100>>, <<100, 100>>}
OffsetPool == {<<0, 0>>, <<1, 1>>, <<3, 0 - 2>>}
AnchorArgs == AnchorNames \cup {SpacedCenter, middle}

GetCoordsCalls ==
    [fn : {"get_coords"}, screen_size : ScreenPool, size : ClipSizePool,
     pos : Cells \X Cells, anchor : AnchorArgs, offset : OffsetPool,
     out : {Pending}]

GridInit == Constructed(1, 1, FALSE) /\ ev \in GetCoordsCalls

EvalGetCoords ==
    /\ ev.fn = "get_coords"
    /\ ev.out = Pending
    /\ ev' = [ev EXCEPT !.out = GetCoordsOn(ev.screen_size, ev.size, ev.pos,
                                            ev.anchor, ev.offset)]
    /\ UNCHANGED <<heap, lists, effects, animations, bg_music, end,
                   total_duration, last>>

SpecGrid == GridInit /\ [][EvalGetCoords]_vars

\* SpecEase: one call of an easing curve at an end of [0, 1].
EaseInit ==
    /\ Constructed(1, 1, FALSE)
    /\ ev \in [fn : {"easing"}, name : EasingNames, x : {0, 1}, out : {Pending}]

EvalEasing ==
    /\ ev.fn = "easing"
    /\ ev.out = Pending
    /\ ev' = [ev EXCEPT !.out = Returned(EasingCall(ev.name, ev.x))]
    /\ UNCHANGED <<heap, lists, effects, animations, bg_music, end,
                   total_duration, last>>

SpecEase == EaseInit /\ [][EvalEasing]_vars

\* SpecInvert: one run of invert_easing(fn, y_target, 1/8).  fn is any
\* total function: its value is drawn where the run evaluates it (never
\* twice at one x).  `ev` is the run: the interval, the values at its ends,
\* the passes made, and what was returned.
InvertRun(fa, fb) ==
    [fn |-> "invert_easing", pc |-> "start", a |-> 0, b |-> XOne, fa |-> fa,
     fb |-> fb, f0 |-> fa, f1 |-> fb, i |-> 0, out |-> Pending]

InvertInit ==
    /\ Constructed(1, 1, FALSE)
    /\ \E fa \in FVals, fb \in FVals : ev = InvertRun(fa, fb)

BisectStart ==
    /\ ev.fn = "invert_easing"
    /\ ev.pc = "start"
    /\ ev' = IF BisectEnds(ev.a, ev.b, ev.fa, ev.fb).res = "loop"
             THEN [ev EXCEPT !.pc = "loop"]
             ELSE [ev EXCEPT !.pc = "done",
                             !.out = BisectEnds(ev.a, ev.b, ev.fa, ev.fb)]
    /\ UNCHANGED <<heap, lists, effects, animations, bg_music, end,
                   total_duration, last>>

BisectLoop ==
    /\ ev.fn = "invert_easing"
    /\ ev.pc = "loop"
    /\ \E fc \in FVals : ev' = BisectPass(ev, fc)
    /\ UNCHANGED <<heap, lists, effects, animations, bg_music, end,
                   total_duration, last>>

NextInvert ==
    \/ BisectStart
    \/ BisectLoop

\* the call runs to its return
SpecInvert == InvertInit /\ [][NextInvert]_vars /\ WF_vars(NextInvert)

\* =================================================================== claims
\* the objects reachable from S through children lists
RECURSIVE ReachFrom(_, _, _)
ReachFrom(h, l, S) ==
    LET T == S \cup UNION {Range(Kids(h, l, o)) : o \in S}
    IN  IF T = S THEN S ELSE ReachFrom(h, l, T)

\* what can be observed of the tree rooted at r: each node's begin, children
\* sequence and finish
TreeOf(h, l, r) ==
    [o \in ReachFrom(h, l, {r}) |->
        [begin |-> h[o].begin, kids |-> Kids(h, l, o), finish |-> Finish(h, l, o)]]

Inserted == {"add_sound", "add_tape", "add_film"}

\* C1 (as claimed): once a copy of x is in a tree, nothing the client does to
\* its own x (assigning x.begin, x.add_sound(...), x.add_tape(...)) changes a
\* node, a children sequence, a begin or a finish of a tree x is not the root of.
C1_CopyOnInsert ==
    [][ /\ last'.op = "add_sound" =>
               /\ TreeOf(heap', lists', ScreenId) = TreeOf(heap, lists, ScreenId)
               /\ TreeOf(heap', lists', FilmId) = TreeOf(heap, lists, FilmId)
        /\ last'.op = "add_tape" =>
               TreeOf(heap', lists', ScreenId) = TreeOf(heap, lists, ScreenId)
        /\ \A x \in Settable, v \in Starts :
               (last'.op = "set_begin" /\ SetBeginCall(x, v)) =>
                   \A r \in {ScreenId, FilmId, TapeId} \ {x} :
                       TreeOf(heap', lists', r) = TreeOf(heap, lists, r)
      ]_vars

\* finish of node o is the largest finish among its children, or begin if it
\* has none
GenericFinishAt(o) ==
    LET kids == Kids(heap, lists, o)
    IN  IF kids = <<>> THEN Finish(heap, lists, o) = heap[o].begin
        ELSE /\ \A i \in 1..Len(kids) :
                    Finish(heap, lists, kids[i]) <= Finish(heap, lists, o)
             /\ \E i \in 1..Len(kids) :
                    Finish(heap, lists, kids[i]) = Finish(heap, lists, o)

\* C2 (as claimed): every node of the Screen's tree, of whatever kind, has
\* finish == max of its children's finish, or == begin when childless.
C2_EveryNodeGenericFinish ==
    \A o \in ReachFrom(heap, lists, {ScreenId}) : GenericFinishAt(o)

\* C2 (amended): every Screen and Film node, in every reachable state, has
\* finish == max of its current children's finish, or == begin when childless.
C2_GenericFinish ==
    \A o \in Used(heap) : heap[o].kind \in {"Screen", "Film"} => GenericFinishAt(o)

\* C2 witness: a Film in the Screen holds two Tapes that finish at different
\* times, so the maximum is not just any child's finish
C2_Witness ==
    \E i \in 1..Len(Kids(heap, lists, ScreenId)) :
        LET f == Kids(heap, lists, ScreenId)[i]
        IN  /\ heap[f].kind = "Film"
            /\ Len(Kids(heap, lists, f)) >= 2
            /\ Finish(heap, lists, Kids(heap, lists, f)[1])
                   > Finish(heap, lists, Kids(heap, lists, f)[2])

\* C3: a Tape's finish is the later of begin + clip.duration and the finish
\* derived from its Sounds (the latest begin + clip.duration among them, or the
\* Tape's begin if it has none); with no Sounds it is begin + clip.duration.
C3_TapeFinish ==
    \A o \in Used(heap) :
        heap[o].kind = "Tape" =>
            LET kids == Kids(heap, lists, o)
                ends == {heap[kids[i]].begin + heap[kids[i]].dur : i \in 1..Len(kids)}
                derived == IF kids = <<>> THEN heap[o].begin ELSE MaxOf(ends)
            IN  /\ Finish(heap, lists, o) = Max2(derived, heap[o].begin + heap[o].dur)
                /\ kids = <<>> => Finish(heap, lists, o) = heap[o].begin + heap[o].dur

\* C3 witness: a Tape placed in a Film whose Sound ends after its clip, next to
\* a Tape in the same Film whose clip ends after its Sounds
C3_Witness ==
    \E o \in Used(heap) :
        /\ heap[o].kind = "Tape"
        /\ o # TapeId
        /\ Kids(heap, lists, o) # <<>>
        /\ Finish(heap, lists, o) > heap[o].begin + heap[o].dur

\* C4 (as claimed): for every node of every kind, lifetime == finish - begin.
C4_LifetimeIsSpan ==
    \A o \in Used(heap) :
        Lifetime(heap, lists, o) = Finish(heap, lists, o) - heap[o].begin

\* the begin the placement policies prescribe for a child inserted under
\* `self` with a known method and gap st, read off the state before the call
PolicyBegin(self, m, st) ==
    LET kids == Kids(heap, lists, self)
        prev == kids[Len(kids)]
    IN  CASE m = "compose" -> heap[self].begin + st
          [] m = "concat"  -> IF Len(kids) = 0 THEN st
                              ELSE Finish(heap, lists, prev) + st
          [] m = "last"    -> IF Len(kids) = 0 THEN st
                              ELSE heap[prev].begin + st

\* after a successful insertion under `self`: the copy is the new last child,
\* the earlier children are as before, and its begin is the policy's
PlacedByPolicy(self, x, m, st) ==
    LET kids == Kids(heap', lists', self)
        new == kids[Len(kids)]
    IN  /\ kids = Append(Kids(heap, lists, self), new)
        /\ new \notin Used(heap)
        /\ heap'[new].kind = heap[x].kind
        /\ heap'[new].dur = heap[x].dur
        /\ heap'[new].begin = PolicyBegin(self, m, st)
        /\ (m = "last" /\ Len(kids) > 1) =>
               heap'[new].begin - heap'[kids[Len(kids) - 1]].begin = st

ConcatAfterLifetime(self, st) ==
    LET kids == Kids(heap', lists', self)
        n == Len(kids)
    IN  heap'[kids[n]].begin =
            IF n = 1 THEN st
            ELSE heap[kids[n - 1]].begin + Lifetime(heap, lists, kids[n - 1]) + st

\* C6 (as claimed): children concatenated into an empty parent with gaps
\* g_1..g_n start at begin_i = lifetime_1 + ... + lifetime_(i-1) + g_1 + ... + g_i.
\* Stated by its recurrence, which is the same by induction on i:
\* begin_1 = g_1 and begin_i = begin_(i-1) + lifetime_(i-1) + g_i,
\* for Sounds in a Tape, Tapes in a Film and Films in the Screen.
C6_ConcatSumsLifetimes ==
    [][ last'.res = "ok" =>
          \A x \in Args(heap), st \in Starts :
             /\ (last'.op = "add_sound" /\ AddSoundCall(TapeId, x, "concat", st))
                    => ConcatAfterLifetime(TapeId, st)
             /\ (last'.op = "add_tape" /\ AddTapeCall(FilmId, x, "concat", st))
                    => ConcatAfterLifetime(FilmId, st)
             /\ (last'.op = "add_film" /\ AddFilmCall(x, "concat", st))
                    => ConcatAfterLifetime(ScreenId, st)
      ]_vars

\* C7 (as claimed): an insertion that raises leaves every children sequence
\* exactly as it was before the call.
C7_AtomicInsertion ==
    [][ (last'.op \in Inserted /\ last'.res # "ok") => lists' = lists ]_vars

Rejected == last'.res # "ok" /\ heap' = heap /\ lists' = lists

\* C8: add_sound, add_tape (one element or a non-empty list) and add_film
\* given a method name that is not 'compose', 'concat' or 'last' raise and
\* leave every children sequence and every object, the caller's included, as
\* it was: no default policy is applied.
C8_UnknownMethodRejected ==
    [][ \A m \in Methods \ ValidMethods, st \in Starts :
          /\ last'.op = "add_sound" =>
                 \A x \in Args(heap) : AddSoundCall(TapeId, x, m, st) => Rejected
          /\ last'.op = "add_film" =>
                 \A x \in Args(heap) : AddFilmCall(x, m, st) => Rejected
          /\ last'.op = "add_tape" =>
                 /\ \A x \in Args(heap) : AddTapeCall(FilmId, x, m, st) => Rejected
                 /\ \A xs \in ArgLists(heap) \ {<<>>} :
                        AddTapeListCall(FilmId, xs, m, st) => Rejected
      ]_vars

\* C8 witness: a Tape that already holds two Sounds has just refused a third
\* (add_sound raises ValueError for nothing but the method name)
C8_Witness ==
    /\ last = Call("add_sound", "ValueError")
    /\ Len(Kids(heap, lists, TapeId)) = 2

\* C9 (as claimed): an element of the wrong kind is rejected and nothing
\* changes: a non-Tape given to add_tape, a non-Film given to add_film, a
\* non-Sound given to add_sound.
C9_WrongKindRejected ==
    [][ \A x \in Args(heap), m \in Methods, st \in Starts :
          /\ (last'.op = "add_tape" /\ heap[x].kind # "Tape"
                 /\ AddTapeCall(FilmId, x, m, st)) => Rejected
          /\ (last'.op = "add_film" /\ heap[x].kind # "Film"
                 /\ AddFilmCall(x, m, st)) => Rejected
          /\ (last'.op = "add_sound" /\ heap[x].kind # "Sound"
                 /\ AddSoundCall(TapeId, x, m, st)) => Rejected
      ]_vars

\* C10: add_film of a Film without Tapes and compose() of a Screen without
\* Films raise and leave the Screen's children and _end as they were; and in
\* every state each Film among the Screen's children has at least one Tape.
C10_EmptyRejected ==
    /\ [][ /\ \A x \in Args(heap), m \in Methods, st \in Starts :
                 (last'.op = "add_film" /\ Len(Kids(heap, lists, x)) = 0
                    /\ AddFilmCall(x, m, st))
                     => /\ last'.res # "ok"
                        /\ Kids(heap', lists', ScreenId) = Kids(heap, lists, ScreenId)
                        /\ end' = end
           /\ (last'.op = "compose" /\ Len(Kids(heap, lists, ScreenId)) = 0
                 /\ Compose)
                     => /\ last'.res # "ok"
                        /\ Kids(heap', lists', ScreenId) = Kids(heap, lists, ScreenId)
                        /\ end' = end
         ]_vars
    /\ [](\A i \in 1..Len(Kids(heap, lists, ScreenId)) :
            LET f == Kids(heap, lists, ScreenId)[i]
            IN  heap[f].kind = "Film" =>
                    \E j \in 1..Len(Kids(heap, lists, f)) :
                        heap[Kids(heap, lists, f)[j]].kind = "Tape")

\* C10 witness: add_film has just refused the Film, which has no Tapes yet,
\* after compose() was refused on the empty Screen (total_duration is still
\* unset) and the Tape got a Sound
C10_Witness ==
    /\ last = Call("add_film", "ValueError")
    /\ Kids(heap, lists, FilmId) = <<>>
    /\ Kids(heap, lists, ScreenId) = <<>>
    /\ Kids(heap, lists, TapeId) # <<>>
    /\ end = None

\* C11 (as claimed): the resolved handle is None in every state in which no
\* compose() has completed successfully (it leaves None only by a compose()
\* that returns); and while it is None, render, get_end_video, show and
\* preview each raise and leave it None.
C11_HandleNoneUntilComposed ==
    [][ /\ (end = None /\ end' # None) => last' = Call("compose", "ok")
        /\ \A q \in Queries :
               (end = None /\ last'.op = q /\ Query(q)) =>
                   /\ last'.res = "RuntimeError"
                   /\ end' = None
      ]_vars

\* the name is none of the nine anchors, compared lower-cased and with the
\* spaces around it removed
UnknownAnchor(a) == StrStrip(StrLower(a)) \notin AnchorNames

\* Tape g is placed on the grid (not custom_position) and its anchor is unknown
GridTapeUnknown(g) ==
    /\ heap[g].kind = "Tape"
    /\ ~heap[g].custom_position
    /\ UnknownAnchor(heap[g].anchor)

\* Tape g has a position animation through the grid whose anchor is unknown
GridAnimUnknown(g) ==
    /\ heap[g].kind = "Tape"
    /\ animations[heap[g].animations].position # None
    /\ ~animations[heap[g].animations].position.no_grid
    /\ UnknownAnchor(animations[heap[g].animations].position.anchor)

\* compose() has just raised and _end is what it was
ComposeFailed == last'.res # "ok" /\ end' = end

\* get_coords raises for each anchor in use that is none of the nine names
UnknownAnchorsRaise ==
    \A g \in Tapes(heap) :
        /\ UnknownAnchor(heap[g].anchor) =>
               GetCoords(heap[g].size, heap[g].pos, heap[g].anchor,
                         heap[g].offset).res = "ValueError"
        /\ \A pa \in PosAnimPool :
               UnknownAnchor(pa.anchor) =>
                   GetCoords(heap[g].size, heap[g].pos, pa.anchor,
                             pa.offset).res = "ValueError"

OwnAnchorResolved(g) ==
    LET pa == animations[heap[g].animations].position
    IN  IF pa = None THEN ~heap[g].custom_position ELSE IsTuple(pa.pos)

\* the anchor of the position animation of Tape g is resolved by compose():
\* the animation has one target, or keyframes placed through the grid
AnimAnchorResolved(g) ==
    LET pa == animations[heap[g].animations].position
    IN  /\ pa # None
        /\ \/ IsTuple(pa.pos)
           \/ ~IsTuple(pa.pos) /\ ~pa.no_grid /\ pa.pos.list # <<>>

SlotsOf(h, an, g) == an[h[g].animations]

\* the copies of Tapes that insertions have made
TapeCopies(h) == Tapes(h) \ Originals(h)

\* every copy other than `tape` has the animation slots it had
OtherCopiesKeepSlots(tape) ==
    \A g \in TapeCopies(heap) \ {tape} :
        SlotsOf(heap', animations', g) = SlotsOf(heap, animations, g)

\* C13 (as claimed): the copy add_tape inserts owns its AnimationSet:
\* with_position_animation, with_scale_animation or with_custom_animation
\* called on the original after the insertion, or on one of the copies,
\* changes the animation slots of no other copy.
C13_IndependentAnimations ==
    [][ \A tape \in Tapes(heap) :
          /\ last'.op = "with_position_animation" =>
                 \A pa \in PosAnimPool :
                     WithPositionAnimationCall(tape, pa) => OtherCopiesKeepSlots(tape)
          /\ last'.op = "with_scale_animation" =>
                 (WithScaleAnimationCall(tape, 2) => OtherCopiesKeepSlots(tape))
          /\ last'.op = "with_custom_animation" =>
                 (WithCustomAnimationCall(tape, "shake",
                      [duration |-> 1, start_delay |-> 0, easing_func |-> "None"])
                    => OtherCopiesKeepSlots(tape))
      ]_vars

\* what an insertion override can touch of Tape g: its effects as listed
\* now, its placement fields and its clip
Styling(h, fx, g) ==
    [effects |-> fx[h[g].effects], pos |-> h[g].pos, span |-> h[g].span,
     anchor |-> h[g].anchor, offset |-> h[g].offset,
     clip |-> [dur |-> h[g].dur, size |-> h[g].size, layer |-> h[g].layer]]

\* C14 (as claimed): the overrides of film.add_tape(x, ...) reach only the
\* copy that call inserts: x and every Tape inserted before keep their
\* effects list, placement fields and clip, and the new copy's effects are
\* the effects x was built with followed by the override's.
C14_OverridesOnlyOnNewCopy ==
    [][ (last'.op = "add_tape" /\ last'.res = "ok") =>
          \A ov \in OverridePool :
              AddTapeWithCall(FilmId, TapeId, "compose", 0, ov) =>
                  /\ \A g \in Tapes(heap) :
                         Styling(heap', effects', g) = Styling(heap, effects, g)
                  /\ LET kids == Kids(heap', lists', FilmId)
                     IN  effects'[heap'[kids[Len(kids)]].effects] =
                             IF ov.effects = None THEN <<>> ELSE ov.effects.some
      ]_vars

\* C15 (as claimed): an insertion changes nothing but the inserted copy's
\* begin: the begin of every node there was, and the children sequence of
\* every node other than the parent, are as before; compose() changes no
\* begin, children, placement field or animation slot, and composing again
\* right after a compose() that returned resolves the same lists.
C15_TreeOnlySetsBegin ==
    [][ /\ (last'.op = "add_tape" /\ last'.res = "ok") =>
               \A o \in Used(heap) :
                   /\ heap'[o].begin = heap[o].begin
                   /\ o # FilmId => Kids(heap', lists', o) = Kids(heap, lists, o)
        /\ (last'.op = "add_film" /\ last'.res = "ok") =>
               \A o \in Used(heap) :
                   /\ heap'[o].begin = heap[o].begin
                   /\ o # ScreenId => Kids(heap', lists', o) = Kids(heap, lists, o)
        /\ last'.op = "compose" =>
               /\ heap' = heap
               /\ lists' = lists
               /\ animations' = animations
               /\ (last = Call("compose", "ok") => end' = end)
      ]_vars

\* C16: a moveAnim call at a time before start_delay returned exactly
\* from_position, and a call at a time after start_delay + duration returned
\* exactly to_position, whatever the easing function.
C16_MoveAnimOutsideWindow ==
    (ev.fn = "moveAnim" /\ ev.out # Pending) =>
        /\ ev.t < ev.start_delay => ev.out = Returned(ev.from_position)
        /\ ev.t > ev.start_delay + ev.duration => ev.out = Returned(ev.to_position)

\* a call before the window whose from_position the zero-weight nudge of
\* interpolate would have moved (100 -> 99)
C16_Witness ==
    /\ ev.fn = "moveAnim"
    /\ ev.out # Pending
    /\ ev.t < ev.start_delay
    /\ ev.from_position = <<100, 50>>
    /\ ev.to_position = <<0, 0>>
    /\ ev.out = Returned(<<100, 50>>)

\* C17: a moveToMany call over n >= 1 keyframes returned the first keyframe
\* at every time before start_delay, and the last keyframe whenever
\* t - start_delay >= n * each or floor((t - start_delay) / each) >= n - 1.
C17_MoveToManyEnds ==
    (ev.fn = "moveToMany" /\ ev.out # Pending /\ Len(ev.positions) >= 1) =>
        LET n == Len(ev.positions)
        IN  /\ ev.t < ev.start_delay => ev.out = Returned(ev.positions[1])
            /\ (\/ ev.t - ev.start_delay >= n * ev.each
                 \/ (ev.t - ev.start_delay) \div ev.each >= n - 1)
               => ev.out = Returned(ev.positions[n])

\* a call inside the final dwell window of three keyframes: the total span
\* is not over, the segment index is that of the last keyframe
C17_Witness ==
    /\ ev.fn = "moveToMany"
    /\ ev.out # Pending
    /\ Len(ev.positions) = 3
    /\ ev.t >= ev.start_delay
    /\ ev.t - ev.start_delay < 3 * ev.each
    /\ (ev.t - ev.start_delay) \div ev.each = 2
    /\ ev.out = Returned(ev.positions[3])

\* w is floor(easing(p / q) * 1000)
IsQuantized(w, easing, p, q) ==
    /\ w * EasingTimes1000(easing, p, q).den <= EasingTimes1000(easing, p, q).num
    /\ EasingTimes1000(easing, p, q).num < (w + 1) * EasingTimes1000(easing, p, q).den

\* the integer v is x / 10000 with its fraction dropped toward zero
IsTruncated(v, x) ==
    IF x >= 0 THEN v * 10000 <= x /\ x < (v + 1) * 10000
    ELSE (v - 1) * 10000 < x /\ x <= v * 10000

\* a returned moveToMany call with an easing function, at a time in segment
\* i < n - 1
InSegment ==
    /\ ev.fn = "moveToMany"
    /\ ev.out # Pending
    /\ ev.easing_func \in Easings
    /\ ev.t >= ev.start_delay
    /\ (ev.t - ev.start_delay) \div ev.each < Len(ev.positions) - 1

SegIndex == (ev.t - ev.start_delay) \div ev.each
SegTime == (ev.t - ev.start_delay) - SegIndex * ev.each

\* the example of the text with the time unit a quarter: each = 1,
\* ease_duration = 0.5, start_delay = 0
IsExample(t) ==
    /\ ev.fn = "moveToMany"
    /\ ev.out # Pending
    /\ ev.easing_func \in Easings
    /\ ev.positions = <<<<0, 0>>, <<100, 0>>, <<200, 0>>>>
    /\ ev.each = 4
    /\ ev.ease_duration = 2
    /\ ev.start_delay = 0
    /\ ev.t = t

ExampleHolds ==
    /\ IsExample(0) => ev.out = Returned(<<0, 0>>)
    /\ IsExample(3) => ev.out = Returned(<<100, 0>>)
    /\ IsExample(12) => ev.out = Returned(<<200, 0>>)

\* C18 as stated: in segment i < n - 1 at segment time s, the result is for
\* s <= ease_duration exactly a + (b - a) * w per axis, with a, b the
\* keyframes i, i + 1 and w = floor(easing(s / ease_duration) * 1000) / 1000,
\* and for s > ease_duration exactly keyframe i + 1; the example holds.
C18_SegmentInterpolation ==
    /\ InSegment =>
          LET a == ev.positions[SegIndex + 1]
              b == ev.positions[SegIndex + 2]
          IN  IF SegTime <= ev.ease_duration
              THEN \E w \in (0 - 1)..2000 :
                     /\ IsQuantized(w, ev.easing_func, SegTime, ev.ease_duration)
                     /\ ev.out.res = "ok"
                     /\ \A k \in 1..2 :
                           ev.out.v[k] * 1000 = a[k] * 1000 + (b[k] - a[k]) * w
              ELSE ev.out = Returned(b)
    /\ ExampleHolds

\* C18, amended: as above, but for s <= ease_duration the result is per
\* axis interpolate(a, b, w) with its fraction dropped toward zero, where
\* interpolate uses the weight 0.0001 when w is 0.
C18_SegmentInterpolationTruncated ==
    /\ InSegment =>
          LET a == ev.positions[SegIndex + 1]
              b == ev.positions[SegIndex + 2]
          IN  IF SegTime <= ev.ease_duration
              THEN \E w \in (0 - 1)..2000 :
                     /\ IsQuantized(w, ev.easing_func, SegTime, ev.ease_duration)
                     /\ ev.out.res = "ok"
                     /\ \A k \in 1..2 :
                           IsTruncated(ev.out.v[k],
                                       a[k] * 10000
                                         + (b[k] - a[k]) * (IF w = 0 THEN 1 ELSE 10 * w))
              ELSE ev.out = Returned(b)
    /\ ExampleHolds

\* at the very start of a segment from (100, 50) toward (0, 0) the weight is
\* 0 and the result is (99, 49)
C18_Witness ==
    /\ InSegment
    /\ SegTime = 0
    /\ ev.positions[SegIndex + 1] = <<100, 50>>
    /\ ev.positions[SegIndex + 2] = <<0, 0>>
    /\ ev.out = Returned(<<99, 49>>)

\* a returned oneToZeroAnim call with an easing function
OneToZeroReturned ==
    /\ ev.fn = "oneToZeroAnim"
    /\ ev.out # Pending
    /\ ev.easing_func \in Easings

\* the easing output at the call's normalized time is in [0, 1]
EasingInUnit ==
    LET e == EasingTimes1000(ev.easing_func, ev.t - ev.start_delay, ev.duration)
    IN  0 <= e.num /\ e.num <= 1000 * e.den

UnsetEasingInWindow ==
    /\ ev.fn = "position"
    /\ ev.pos.easing_func = "None"
    /\ ev.t >= ev.pos.start_delay
    /\ IF ev.pos.fn = "moveAnim"
       THEN ev.t - ev.pos.start_delay <= ev.pos.duration
       ELSE /\ (ev.t - ev.pos.start_delay) \div ev.pos.each < Len(ev.pos.positions) - 1
            /\ (ev.t - ev.pos.start_delay) % ev.pos.each <= ev.pos.ease_duration

\* C20: a position function composed from a descriptor with no easing
\* function, called at a time t in the active window, does not fail and
\* returns the quantized linear interpolation: per axis the truncated
\* interpolate(a, b, w) with w = floor(x * 1000) / 1000 for the normalized
\* time x.
C20_UnsetEasingIsIdentity ==
    UnsetEasingInWindow =>
        LET s == IF ev.pos.fn = "moveAnim" THEN ev.t - ev.pos.start_delay
                 ELSE (ev.t - ev.pos.start_delay) % ev.pos.each
            d == IF ev.pos.fn = "moveAnim" THEN ev.pos.duration
                 ELSE ev.pos.ease_duration
            i == (ev.t - ev.pos.start_delay) \div ev.pos.each
            a == IF ev.pos.fn = "moveAnim" THEN ev.pos.from_position
                 ELSE ev.pos.positions[i + 1]
            b == IF ev.pos.fn = "moveAnim" THEN ev.pos.to_position
                 ELSE ev.pos.positions[i + 2]
            w == (1000 * s) \div d
        IN  /\ ev.out.res = "ok"
            /\ \A k \in 1..2 :
                  IsTruncated(ev.out.v[k],
                              a[k] * 10000
                                + (b[k] - a[k]) * (IF w = 0 THEN 1 ELSE 10 * w))

\* where the point an anchor names lies on a rectangle, in halves of its
\* width and of its height
AnchorPoint(a) ==
    CASE a = center      -> <<1, 1>>
      [] a = left        -> <<0, 1>>
      [] a = right       -> <<2, 1>>
      [] a = top         -> <<1, 0>>
      [] a = bottom      -> <<1, 2>>
      [] a = topleft     -> <<0, 0>>
      [] a = topright    -> <<2, 0>>
      [] a = bottomleft  -> <<0, 2>>
      [] a = bottomright -> <<2, 2>>

C22_NoGridIsRawPixels ==
    [][(last'.op = "compose" /\ last'.res = "ok") =>
         LET tapes == Grandkids(heap, lists, ScreenId)
         IN  \A i \in 1..Len(tapes) :
                LET pa == animations[heap[tapes[i]].animations].position
                IN  (pa # None /\ pa.no_grid) =>
                        IF IsTuple(pa.pos)
                        THEN end'.video[i].pos.to_position = pa.pos.tuple
                        ELSE end'.video[i].pos.positions = pa.pos.list]_vars

InvertDone == ev.fn = "invert_easing" /\ ev.pc = "done"

\* fn(0) - target and fn(1) - target have opposite signs
OppositeEnds == ev.f0 * ev.f1 < 0

\* what C23 says of every run whatever the ends: the passes are bounded,
\* a finished run returned a number in [0, 1], and an interval kept by
\* the loop has values of opposite sign at its ends
InvertSafe ==
    ev.fn = "invert_easing" =>
        /\ ev.i <= MaxIter
        /\ ev.pc = "done" =>
              (ev.out.res = "ok" /\ 0 <= ev.out.v /\ ev.out.v <= XOne)
        /\ ev.pc = "loop" => (OppositeEnds /\ ev.fa * ev.fb < 0)

\* the endpoint returned is the one whose value is closer to the target
ReturnedCloserEnd ==
    \/ ev.out = Returned(0) /\ Abs(ev.f0) <= Abs(ev.f1)
    \/ ev.out = Returned(XOne) /\ Abs(ev.f1) <= Abs(ev.f0)

\* C23 as stated: every run of invert_easing returns, without raising, a
\* number in [0, 1]; when the values at 0 and 1 do not have opposite signs
\* it is the endpoint whose value is closer to the target; when they do,
\* every interval the loop keeps has values of opposite sign at its ends.
C23_InvertEasingBestEffort ==
    /\ []InvertSafe
    /\ []((InvertDone /\ ~OppositeEnds) => ReturnedCloserEnd)
    /\ <>InvertDone

\* C23, amended: as above, but without opposite signs the result is 0
\* whenever fn(0) is within the tolerance of the target, and the closer
\* endpoint otherwise.
C23_InvertEasingBestEffortTol ==
    /\ []InvertSafe
    /\ []((InvertDone /\ ~OppositeEnds) =>
            IF Abs(ev.f0) < FTol THEN ev.out = Returned(0) ELSE ReturnedCloserEnd)
    /\ <>InvertDone

\* a run over ends of opposite sign that returned an inner point after at
\* least two passes of the loop
C23_Witness ==
    /\ InvertDone
    /\ OppositeEnds
    /\ ev.i >= 2
    /\ ev.out.res = "ok"
    /\ 0 < ev.out.v
    /\ ev.out.v < XOne

\* C24 (as stated): every easing curve of the library returns exactly 0 at
\* x = 0 and exactly 1 at x = 1.
C24_EasingEndsExact ==
    (ev.fn = "easing" /\ ev.out # Pending) => ev.out.v = FInt(ev.x)

\* C24 (amended): every easing curve of the library returns 0 at x = 0 and 1
\* at x = 1 to within 1e-9.
C24_EasingEndsWithinTol ==
    (ev.fn = "easing" /\ ev.out # Pending) =>
        /\ ev.out.v.c1 = 0
        /\ ev.out.v.n = 64 * ev.x
        \* 1e-9 is 9007199 times 2^-53
        /\ Abs(ev.out.v.eps) \div 1000 <= 9007199

\* easeInBack(1) has returned the double just below 1: 1 - 2^-52
C24_Witness ==
    /\ ev.fn = "easing" /\ ev.name = "easeInBack" /\ ev.x = 1
    /\ ev.out = Returned(FNum(0, 64, 0 - 2000))

\* the number of clips compose() lists before those of the k-th Film
ClipsBefore(h, l, k) ==
    LET films == Kids(h, l, ScreenId)
    IN  Len(ConcatAll([i \in 1..(k - 1) |-> Kids(h, l, films[i])], k - 1))

\* in the output of the compose() that has just succeeded, no clip starts
\* before the begin of the Film its Tape is in
ClipsStartInsideFilm ==
    LET films == Kids(heap', lists', ScreenId)
    IN  \A k \in 1..Len(films) :
            \A j \in 1..Len(Kids(heap', lists', films[k])) :
                end'.video[ClipsBefore(heap', lists', k) + j].start
                    >= heap'[films[k]].begin

\* the Film that add_film(x, 'concat', st) has just put after another holds
\* no Tape that starts before that other Film finishes
TapesStartAfterPrevious ==
    LET films == Kids(heap', lists', ScreenId)
        n == Len(films)
    IN  n > 1 =>
            \A j \in 1..Len(Kids(heap', lists', films[n])) :
                heap'[Kids(heap', lists', films[n])[j]].begin
                    >= Finish(heap, lists, films[n - 1])

\* C25 (as claimed): Films added to the Screen with 'concat' play one after
\* the other (every Tape of the later Film starts at or after the finish of
\* the Film before it), and compose() starts every clip at or after the
\* begin of the Film that holds its Tape.
C25_FilmBeginShiftsTapes ==
    [][ last'.res = "ok" =>
          /\ last'.op = "compose" => ClipsStartInsideFilm
          /\ \A x \in Args(heap), st \in Starts :
                (last'.op = "add_film" /\ AddFilmCall(x, "concat", st))
                    => TapesStartAfterPrevious
      ]_vars

\* C26 (as claimed): whatever was inserted (start >= 0, durations >= 0),
\* every node of the Screen's tree finishes at or after its begin.
C26_FinishNotBeforeBegin ==
    \A o \in ReachFrom(heap, lists, {ScreenId}) :
        Finish(heap, lists, o) # RecErr => Finish(heap, lists, o) >= heap[o].begin

\* C27 (as claimed): after a successful compose(), total_duration (the
\* Screen's finish, the duration given to the background) is at least the
\* end of every stamped clip: tape.begin + clip.duration for each Tape, and
\* tape.begin + sound.begin + the Sound clip's duration for each Sound.
C27_TotalCoversStamped ==
    [][ (last'.op = "compose" /\ last'.res = "ok") =>
          /\ total_duration' = Finish(heap', lists', ScreenId)
          /\ end'.total = total_duration'
          /\ \A i \in 1..Len(end'.video) :
                end'.video[i].start + end'.video[i].dur <= total_duration'
          /\ \A i \in 1..Len(end'.audio) :
                end'.audio[i].start + end'.audio[i].dur <= total_duration'
      ]_vars

\* C28 (as claimed): moveAnim, oneToZeroAnim and moveToMany, handed an
\* easing function, return a value whatever t >= 0, duration >= 0 (0
\* included), each > 0 and ease_duration >= 0 (0 included): none raises.
C28_EvaluatorsTotal ==
    (ev.fn \in {"moveAnim", "oneToZeroAnim", "moveToMany"}
        /\ ev.out # Pending /\ ev.easing_func # "None") => ev.out.res = "ok"

\* a call made at the very start of a motion, with an easing that is 0 at 0:
\* moveAnim at t = start_delay, moveToMany at the start of a segment that is
\* not the last
AtMotionStart ==
    /\ ev.fn \in {"moveAnim", "moveToMany"}
    /\ ev.out # Pending
    /\ ev.easing_func # "None"
    /\ EasingTimes1000(ev.easing_func, 0, 1).num = 0
    /\ ev.t >= ev.start_delay
    /\ ev.fn = "moveAnim" => ev.t = ev.start_delay
    /\ ev.fn = "moveToMany" =>
           /\ (ev.t - ev.start_delay) % ev.each = 0
           /\ (ev.t - ev.start_delay) \div ev.each < Len(ev.positions) - 1

\* where the motion starts and where it heads
StartValue ==
    IF ev.fn = "moveAnim" THEN ev.from_position
    ELSE ev.positions[(ev.t - ev.start_delay) \div ev.each + 1]
TargetValue ==
    IF ev.fn = "moveAnim" THEN ev.to_position
    ELSE ev.positions[(ev.t - ev.start_delay) \div ev.each + 2]

\* C29 (as claimed): at the very start of a motion moveAnim returns exactly
\* from_position and moveToMany exactly the keyframe of the segment,
\* whichever way the motion goes.
C29_MotionStartsAtStart ==
    AtMotionStart => ev.out = Returned(StartValue)

\* the pixel next to a on the side of zero
TowardZero(a) == IF a > 0 THEN a - 1 ELSE IF a < 0 THEN a + 1 ELSE a

\* C29 (amended): at the very start of a motion the result is, on each axis,
\* exactly the start value when the start is 0 or the target is not nearer
\* to zero's side of it, and the pixel next to the start toward zero when the
\* motion heads toward zero's side.
C29_MotionStartsWithinOnePixel ==
    AtMotionStart =>
        /\ ev.out.res = "ok"
        /\ \A i \in 1..2 :
              ev.out.v[i] = IF (TargetValue[i] - StartValue[i]) * StartValue[i] >= 0
                            THEN StartValue[i]
                            ELSE TowardZero(StartValue[i])

\* moveAnim from (100, 50) toward (0, 0) has returned (99, 49) at
\* t = start_delay
C29_Witness ==
    /\ ev.fn = "moveAnim" /\ ev.t = ev.start_delay
    /\ ev.from_position = <<100, 50>> /\ ev.to_position = <<0, 0>>
    /\ ev.easing_func = "easeInQuad"
    /\ ev.out = Returned(<<99, 49>>)

\* the handle of the last compose() that returned is the cached one
HandleIsLastComposed == ev.fn = "composed" => end = ev.handle

\* C30 (as claimed): once a compose() has succeeded, every later render,
\* get_end_video, show and preview succeeds, and whatever follows (add_film,
\* add_tape, add_bg_music, a compose() that raises) the cached handle is the
\* one the last successful compose() produced.
C30_ComposedIsTerminal ==
    /\ HandleIsLastComposed
    /\ (ev.fn = "composed" /\ last.op \in Queries) => last.res = "ok"

====
